---- MODULE Spec2Model ----
(***************************************************************************)
(* Model of the tool-execution substrate of the Docker agent:              *)
(*   - the command gateway of src/multi_agent/tools/docker_tools.py        *)
(*     (allow-list validation, workspace path resolution, CLI execution),  *)
(*   - the trajectory recorder of src/multi_agent/trajectory/collector.py. *)
(*                                                                         *)
(* Strings are sequences.  Command text is a sequence of lexemes: a word   *)
(* ("ps", "nginx") is one lexeme, and every shell metacharacter, blank,    *)
(* dash and quote is a lexeme of its own, so that "contains", "starts      *)
(* with", strip and split are computed on the text.  Path text is a        *)
(* sequence of characters.                                                 *)
(***************************************************************************)
EXTENDS Integers, Sequences, FiniteSets, TLC

\* ------------------------------------------------------------------------
\* Bounds of the model
\* ------------------------------------------------------------------------
MaxArgs == 3

MaxPathLen == 6

MaxCalls == 2

MaxPieces == 3

MaxEvents == 3

MaxLlmCalls == 1

MaxText == 4

MaxBudget == 4

\* statements of a program before its loop or its end
MaxStatements == 2

\* tokens of a compose argument list after 'compose'
MaxFlags == 3

\* tool calls of a recorder whose loop patterns are watched
MaxStreak == 3

\* calls of run_turn on one runtime
MaxTurns == 3

\* tool calls of the worker between two calls of clear()
MaxWorkerEvents == 4

\* lines typed at the prompt of the CLI
MaxLines == 2

\* instants the clock passes on its own while threads share a recorder
MaxClock == 1

\* ------------------------------------------------------------------------
\* Optional values (Python None)
\* ------------------------------------------------------------------------
None == [some |-> FALSE, v |-> <<>>]

Some(x) == [some |-> TRUE, v |-> x]

\* A call that returned a value / a call that raised an exception
Returned(x) == [raised |-> FALSE, exc |-> "", v |-> x]

Raised(kind, msg) == [raised |-> TRUE, exc |-> kind, v |-> msg]

\* ------------------------------------------------------------------------
\* Text helpers
\* ------------------------------------------------------------------------
\* Python: marker in token
Contains(s, m) ==
    \E i \in 1..(Len(s) - Len(m) + 1) : SubSeq(s, i, i + Len(m) - 1) = m

\* Python: token.startswith(p)
StartsWith(s, p) == Len(s) >= Len(p) /\ SubSeq(s, 1, Len(p)) = p

IsSpace(c) == c \in {" ", "\n"}

RECURSIVE LStrip(_)
LStrip(s) == IF s # <<>> /\ IsSpace(Head(s)) THEN LStrip(Tail(s)) ELSE s

RECURSIVE RStrip(_)
RStrip(s) ==
    IF s # <<>> /\ IsSpace(s[Len(s)]) THEN RStrip(SubSeq(s, 1, Len(s) - 1)) ELSE s

\* Python: str.strip()
Strip(s) == RStrip(LStrip(s))

\* ------------------------------------------------------------------------
\* docker_tools.py: allow-list and validation
\* ------------------------------------------------------------------------
DOCKER_CLI_TIMEOUT_SECONDS == 30

SAFE_DOCKER_COMMANDS ==
    { <<"ps">>, <<"images">>, <<"logs">>, <<"stats">>, <<"inspect">>,
      <<"start">>, <<"stop">>, <<"restart">>,
      <<"network", " ", "ls">>, <<"network", " ", "inspect">>,
      <<"volume", " ", "ls">>, <<"volume", " ", "inspect">>,
      <<"info">>, <<"version">>,
      <<"compose", " ", "ps">>, <<"compose", " ", "logs">> }

\* the backquote character, as a lexeme
Backquote == "<backquote>"

\* the markers of _validate_docker_command: ; && || | backquote $(
ShellMarkers ==
    { <<";">>, <<"&", "&">>, <<"|", "|">>, <<"|">>, <<Backquote>>, <<"$", "(">> }

\* only the short flags take a value
ComposeShortValueFlags == { <<"-", "f">>, <<"-", "p">> }

\* compose global flags that take a value
ComposeValueFlags ==
    { <<"-", "f">>, <<"-", "-", "file">>, <<"-", "p">>,
      <<"-", "-", "project-name">>, <<"-", "-", "profile">> }

\* the while loop of _extract_command_key; idx is 1-based here
RECURSIVE ComposeScan(_, _)
ComposeScan(args, idx) ==
    IF idx > Len(args)
    THEN Raised("ValueError", <<"Docker compose subcommand is required">>)
    ELSE IF args[idx] \in ComposeValueFlags THEN ComposeScan(args, idx + 2)
    ELSE IF StartsWith(args[idx], <<"-">>) THEN ComposeScan(args, idx + 1)
    ELSE Returned(<<"compose", " ">> \o args[idx])

_extract_command_key(args) ==
    IF args = <<>> THEN Raised("ValueError", <<"Docker command is required">>)
    ELSE IF args[1] = <<"compose">> THEN ComposeScan(args, 2)
    ELSE IF args[1] \in {<<"network">>, <<"volume">>}
    THEN IF Len(args) < 2
         THEN Raised("ValueError",
                     <<"'docker ">> \o args[1] \o <<"' subcommand is required">>)
         ELSE Returned(args[1] \o <<" ">> \o args[2])
    ELSE Returned(args[1])

HasShellMarker(args) ==
    \E i \in 1..Len(args) : \E m \in ShellMarkers : Contains(args[i], m)

\* Variant: a key outside the allow-list is let through
KeyLetThrough(key) == Returned(<<>>)

KeyNotAllowed(key) ==
    Raised("ValueError", <<"Command not allowed: ">> \o key)

\* Variant: the allow-list is consulted before the tokens are screened
ValidateAllowListFirst(args) ==
    IF args = <<>> THEN Raised("ValueError", <<"Docker command is required">>)
    ELSE LET key == _extract_command_key(args) IN
         IF key.raised THEN key
         ELSE IF key.v \notin SAFE_DOCKER_COMMANDS THEN KeyNotAllowed(key.v)
         ELSE IF HasShellMarker(args)
         THEN Raised("ValueError", <<"Shell control operators are not allowed">>)
         ELSE Returned(<<>>)

\* Returned(<<>>) when the command is accepted, Raised(...) otherwise
_validate_docker_command(args) ==
    IF args = <<>> THEN Raised("ValueError", <<"Docker command is required">>)
    ELSE IF HasShellMarker(args)
    THEN Raised("ValueError", <<"Shell control operators are not allowed">>)
    ELSE LET key == _extract_command_key(args) IN
         IF key.raised THEN key
         ELSE IF key.v \notin SAFE_DOCKER_COMMANDS THEN KeyNotAllowed(key.v)
         ELSE Returned(<<>>)

\* ------------------------------------------------------------------------
\* docker_tools.py: workspace paths.  A path text is a sequence of
\* characters; a resolved path is the sequence of its components below "/".
\* ------------------------------------------------------------------------
PathChars == {"/", ".", "w", "l", " "}

\* _workspace_root(): the resolved root directory, here /t/w
WorkspaceRoot == << <<"t">>, <<"w">> >>

\* the file system: one symbolic link /t/w/l, pointing at /o outside the root
SymlinkAt == Append(WorkspaceRoot, <<"l">>)

SymlinkTarget == << <<"o">> >>

\* str(path) of a resolved path
RECURSIVE PathStr(_)
PathStr(parts) ==
    IF parts = <<>> THEN <<>> ELSE <<"/">> \o Head(parts) \o PathStr(Tail(parts))

\* Python: raw.lstrip("/")
RECURSIVE LStripSlash(_)
LStripSlash(s) ==
    IF s # <<>> /\ Head(s) = "/" THEN LStripSlash(Tail(s)) ELSE s

\* pathlib parsing of a relative text: split at "/", drop "" and "."
RECURSIVE PathParts(_, _)
PathParts(s, cur) ==
    LET done == IF cur = <<>> \/ cur = <<".">> THEN <<>> ELSE <<cur>> IN
    IF s = <<>> THEN done
    ELSE IF Head(s) = "/" THEN done \o PathParts(Tail(s), <<>>)
    ELSE PathParts(Tail(s), Append(cur, Head(s)))

\* Path.resolve(): ".." goes to the parent of what is resolved so far ("/"
\* is its own parent), a symbolic link is replaced by its target
RECURSIVE Resolve(_, _)
Resolve(acc, rest) ==
    IF rest = <<>> THEN acc
    ELSE IF Head(rest) = <<".", ".">>
    THEN Resolve(IF acc = <<>> THEN <<>> ELSE SubSeq(acc, 1, Len(acc) - 1),
                 Tail(rest))
    ELSE LET next == Append(acc, Head(rest)) IN
         IF next = SymlinkAt THEN Resolve(SymlinkTarget, Tail(rest))
         ELSE Resolve(next, Tail(rest))

\* root in resolved.parents
IsParent(root, resolved) ==
    Len(resolved) > Len(root) /\ SubSeq(resolved, 1, Len(root)) = root

PathEscape ==
    Raised("ValueError",
           <<"Path must stay inside workspace root: ">> \o PathStr(WorkspaceRoot))

\* Variant: containment judged by depth, not by the leading components
InsideRootByDepth(resolved) == Len(resolved) >= Len(WorkspaceRoot)

\* the containment test of _resolve_workspace_path
InsideRoot(resolved) ==
    resolved = WorkspaceRoot \/ IsParent(WorkspaceRoot, resolved)

\* the join of _resolve_workspace_path: root / raw, a leading "/" removed
Candidate(raw) ==
    WorkspaceRoot \o PathParts(IF StartsWith(raw, <<"/">>) THEN LStripSlash(raw)
                               ELSE raw, <<>>)

\* path is None or Some(text)
_resolve_workspace_path(path) ==
    IF ~path.some \/ path.v = <<>> \/ Strip(path.v) \in {<<>>, <<"/">>}
    THEN Returned(WorkspaceRoot)
    ELSE LET resolved == Resolve(<<>>, Candidate(Strip(path.v))) IN
         IF ~InsideRoot(resolved) THEN PathEscape ELSE Returned(resolved)

\* ------------------------------------------------------------------------
\* docker_tools.py: running the Docker binary
\* ------------------------------------------------------------------------
\* what subprocess.run does with the started process
ExitCodes == {0, 1}

\* what the process writes: nothing, a line, and a text of single
\* characters that is longer than the response budget of the model
LongStdout == <<"x", "x", "x", "x", "x", "x", "x", "x", "x", "x", "x", "x", "x", "x", "x", "x", "x", "x", "x", "x", "\n">>

StdoutTexts == { <<>>, <<"out", "\n">>, LongStdout }

StderrTexts == { <<>>, <<" ", "\n">>, <<" ", "bad", "\n">> }

ProcOutcomes ==
    { [kind |-> "exit", code |-> c, stdout |-> Some(o), stderr |-> e] :
        c \in ExitCodes, o \in StdoutTexts, e \in StderrTexts }
    \cup
    { [kind |-> "timeout", code |-> 0, stdout |-> o, stderr |-> <<>>] :
        o \in {None, Some(<<>>), Some(<<"part">>)} }
    \cup
    { [kind |-> "oserror", code |-> 0, stdout |-> None, stderr |-> <<>>] }

\* the host: is the docker binary on PATH, which compose flavour answers the
\* probe, does the compose file exist, and what the started process does
Envs ==
    [ docker : BOOLEAN, compose : {"v2", "legacy", "none"}, file_exists : BOOLEAN,
      proc : ProcOutcomes ]

\* the hosts that matter to a tool that runs the docker binary only
CliEnvs == { e \in Envs : e.compose = "none" /\ e.file_exists }

Spawn(kind, argv, cwd, timeout) ==
    [kind |-> kind, argv |-> argv, cwd |-> cwd, timeout |-> timeout]

\* Variant: the output captured before the timeout is dropped
TimeoutStdoutDropped(captured) == <<>>

\* _as_text(exc.stdout) if exc.stdout else ""
TimeoutStdout(captured) ==
    IF captured.some /\ captured.v # <<>> THEN captured.v ELSE <<>>

TimeoutExitCode == 124

TimeoutMessage(timeout) ==
    <<"Docker command timed out after ", ToString(timeout), "s">>

\* the processes _run_docker_cli starts
RunDockerCliSpawns(args, cwd, timeout, env) ==
    IF ~env.docker THEN <<>>
    ELSE << Spawn("run", << <<"docker">> >> \o args, cwd, timeout) >>

\* _run_docker_cli: Returned(<<code, stdout, stderr>>) or Raised
_run_docker_cli(args, cwd, timeout, env) ==
    IF ~env.docker
    THEN Raised("RuntimeError",
                <<"Docker CLI is not available. Install Docker to use this toolset.">>)
    ELSE IF env.proc.kind = "exit"
    THEN Returned(<<env.proc.code, env.proc.stdout.v, env.proc.stderr>>)
    ELSE IF env.proc.kind = "timeout"
    THEN Returned(<<TimeoutExitCode, TimeoutStdout(env.proc.stdout),
                    TimeoutMessage(timeout)>>)
    ELSE Raised("FileNotFoundError", <<"[Errno 2] No such file or directory">>)

\* _run_safe_docker_cli: [result, spawns, checked]; checked holds the argument
\* lists that _validate_docker_command accepted
_run_safe_docker_cli(args, cwd, timeout, env) ==
    LET ok == _validate_docker_command(args) IN
    IF ok.raised
    THEN [result |-> ok, spawns |-> <<>>, checked |-> {}]
    ELSE [result |-> _run_docker_cli(args, cwd, timeout, env),
          spawns |-> RunDockerCliSpawns(args, cwd, timeout, env),
          checked |-> {args}]

\* ------------------------------------------------------------------------
\* docker_tools.py: the docker_bash tool
\* ------------------------------------------------------------------------
\* shlex.split on text without double quotes and backslashes: blanks
\* separate tokens, '...' quotes; tok is the token being read, if any
RECURSIVE ShlexScan(_, _, _, _)
ShlexScan(s, toks, tok, quoted) ==
    LET flush == IF tok.some THEN Append(toks, tok.v) ELSE toks
        cur == IF tok.some THEN tok.v ELSE <<>> IN
    IF s = <<>>
    THEN IF quoted THEN Raised("ValueError", <<"No closing quotation">>)
         ELSE Returned(flush)
    ELSE IF Head(s) = "'" THEN ShlexScan(Tail(s), toks, Some(cur), ~quoted)
    ELSE IF ~quoted /\ IsSpace(Head(s)) THEN ShlexScan(Tail(s), flush, None, FALSE)
    ELSE ShlexScan(Tail(s), toks, Some(Append(cur, Head(s))), quoted)

ShlexSplit(s) == ShlexScan(s, <<>>, None, FALSE)

ErrorPrefix(msg) == <<"Error: ">> \o msg

\* stderr.strip() or 'Command failed'
FailureText(stderr) ==
    IF Strip(stderr) # <<>> THEN Strip(stderr) ELSE <<"Command failed">>

\* Variant: the exit code is left out of the failure line
ExitErrorNoCode(code, stderr) == <<"Error: ">> \o FailureText(stderr)

ExitError(code, stderr) ==
    <<"Error (exit ", ToString(code), "): ">> \o FailureText(stderr)

\* the working directory docker_bash hands to _run_safe_docker_cli
DockerBashCwd(cwd) == cwd

\* docker_bash(command, args, cwd, timeout): [result, spawns, checked]
docker_bash(command, args, cwd, timeout, env) ==
    LET command_parts == ShlexSplit(command)
        arg_parts == IF args.some /\ args.v # <<>> THEN ShlexSplit(args.v)
                     ELSE Returned(<<>>)
        nothing(r) == [result |-> Returned(r), spawns |-> <<>>, checked |-> {}] IN
    IF command_parts.raised THEN nothing(ErrorPrefix(command_parts.v))
    ELSE IF arg_parts.raised THEN nothing(ErrorPrefix(arg_parts.v))
    ELSE LET joined == command_parts.v \o arg_parts.v
             full_args == IF joined # <<>> /\ joined[1] = <<"docker">>
                          THEN Tail(joined) ELSE joined IN
         IF full_args = <<>>
         THEN nothing(ErrorPrefix(<<"Docker command is required">>))
         ELSE LET run == _run_safe_docker_cli(full_args, DockerBashCwd(cwd),
                                              timeout, env) IN
              [ run EXCEPT !.result =
                  IF run.result.raised THEN Returned(ErrorPrefix(run.result.v))
                  ELSE IF run.result.v[1] = 0 THEN Returned(run.result.v[2])
                  ELSE Returned(ExitError(run.result.v[1], run.result.v[3])) ]

\* ------------------------------------------------------------------------
\* docker_tools.py: the compose tools and an SDK tool
\* ------------------------------------------------------------------------
\* _compose_prefix: probes "docker compose version", then "docker-compose
\* version"; [result, spawns]
_compose_prefix(env) ==
    LET probe2 == Spawn("probe", << <<"docker">>, <<"compose">>, <<"version">> >>,
                        None, 0)
        probe1 == Spawn("probe", << <<"docker-compose">>, <<"version">> >>, None, 0)
        first == IF env.docker THEN <<probe2>> ELSE <<>> IN
    IF env.docker /\ env.compose = "v2"
    THEN [result |-> Returned(<< <<"docker">>, <<"compose">> >>), spawns |-> first]
    ELSE IF env.compose = "legacy"
    THEN [result |-> Returned(<< <<"docker-compose">> >>),
          spawns |-> Append(first, probe1)]
    ELSE [result |-> Raised("RuntimeError",
              <<"Docker Compose is not available. Install Docker Compose v2 or docker-compose.">>),
          spawns |-> first]

\* _run_compose(args, cwd): no allow-list check, no timeout
_run_compose(args, cwd, env) ==
    LET prefix == _compose_prefix(env) IN
    IF prefix.result.raised
    THEN [result |-> prefix.result, spawns |-> prefix.spawns, checked |-> {}]
    ELSE [result |-> IF env.proc.kind = "exit"
                     THEN Returned(<<env.proc.code, env.proc.stdout.v,
                                     env.proc.stderr>>)
                     ELSE Raised("FileNotFoundError",
                                 <<"[Errno 2] No such file or directory">>),
          spawns |-> Append(prefix.spawns,
                            Spawn("run", prefix.result.v \o args, cwd, 0)),
          checked |-> {}]

\* _compose_file_and_cwd: Returned(<<compose_file, working_dir>>) or Raised
_compose_file_and_cwd(file_path, cwd, env) ==
    LET compose_file == _resolve_workspace_path(Some(file_path))
        working_dir ==
            IF cwd.some /\ cwd.v # <<>> THEN _resolve_workspace_path(cwd)
            ELSE IF compose_file.raised \/ compose_file.v = <<>> THEN compose_file
            ELSE Returned(SubSeq(compose_file.v, 1, Len(compose_file.v) - 1)) IN
    IF compose_file.raised THEN compose_file
    ELSE IF working_dir.raised THEN working_dir
    ELSE IF ~env.file_exists
    THEN Raised("FileNotFoundError",
                <<"Compose file not found: ">> \o PathStr(compose_file.v))
    ELSE Returned(<<compose_file.v, working_dir.v>>)

\* the envelope handed to _ok / _error by the compose tools
ComposePayload(success, message, run) ==
    [success |-> success, error |-> message, exit_code |-> run[1],
     stdout |-> run[2], stderr |-> run[3]]

ErrorPayload(message) ==
    [success |-> FALSE, error |-> message, exit_code |-> 0,
     stdout |-> <<>>, stderr |-> <<>>]

ComposeFlagArgs(flags, order) ==
    LET Pick(i) == IF order[i][1] \in flags THEN <<order[i][2]>> ELSE <<>> IN
    Pick(1) \o Pick(2) \o Pick(3) \o Pick(4)

ComposeTool(sub, flagargs, failure, file_path, project_name, cwd, env) ==
    LET paths == _compose_file_and_cwd(file_path, cwd, env) IN
    IF paths.raised
    THEN [result |-> Returned(ErrorPayload(paths.v)), spawns |-> <<>>,
          checked |-> {}]
    ELSE LET args == << <<"-", "f">>, PathStr(paths.v[1]) >>
                     \o (IF project_name.some /\ project_name.v # <<>>
                         THEN << <<"-", "p">>, project_name.v >> ELSE <<>>)
                     \o <<sub>> \o flagargs
             run == _run_compose(args, Some(PathStr(paths.v[2])), env) IN
         [ run EXCEPT !.result =
             IF run.result.raised THEN Returned(ErrorPayload(run.result.v))
             ELSE IF run.result.v[1] = 0
             THEN Returned(ComposePayload(TRUE, <<>>, run.result.v))
             ELSE Returned(ComposePayload(FALSE, failure, run.result.v)) ]

\* compose_up with services = None
compose_up(file_path, project_name, flags, cwd, env) ==
    ComposeTool(<<"up">>,
        ComposeFlagArgs(flags, << <<"detach", <<"-", "d">> >>,
                                  <<"build", <<"-", "-", "build">> >>,
                                  <<"force_recreate", <<"-", "-", "force-recreate">> >>,
                                  <<"remove_orphans", <<"-", "-", "remove-orphans">> >> >>),
        <<"docker compose up failed">>, file_path, project_name, cwd, env)

\* compose_down with rmi = None
compose_down(file_path, project_name, flags, cwd, env) ==
    ComposeTool(<<"down">>,
        ComposeFlagArgs(flags, << <<"remove_orphans", <<"-", "-", "remove-orphans">> >>,
                                  <<"volumes", <<"-", "v">> >>,
                                  <<"none", <<>> >>, <<"none", <<>> >> >>),
        <<"docker compose down failed">>, file_path, project_name, cwd, env)

\* remove_container: a daemon call through the SDK client (_docker_client
\* fails when the daemon does not answer)
remove_container(container_id, env) ==
    IF ~env.docker
    THEN [result |-> Returned(ErrorPayload(<<"Unable to connect to Docker daemon">>)),
          spawns |-> <<>>, checked |-> {}]
    ELSE [result |-> Returned(ComposePayload(TRUE, <<>>, <<0, <<>>, <<>> >>)),
          spawns |-> << Spawn("sdk", << <<"containers.remove">>, container_id >>,
                              None, 0) >>,
          checked |-> {}]

\* ------------------------------------------------------------------------
\* collector.py: texts.  The texts the recorder handles are sequences of
\* characters.
\* ------------------------------------------------------------------------
UpperCase ==
    [c \in {"A", "C", "D", "E", "H", "I", "K", "N", "O", "R", "T", "U"} |->
        CASE c = "A" -> "a" [] c = "C" -> "c" [] c = "D" -> "d" [] c = "E" -> "e"
          [] c = "H" -> "h" [] c = "I" -> "i" [] c = "K" -> "k" [] c = "N" -> "n"
          [] c = "O" -> "o" [] c = "R" -> "r" [] c = "T" -> "t" [] c = "U" -> "u"]

\* str.lower()
Lower(text) ==
    [i \in 1..Len(text) |->
        IF text[i] \in DOMAIN UpperCase THEN UpperCase[text[i]] ELSE text[i]]

TextCommand ==
    <<"c", "o", "m", "m", "a", "n", "d">>

TextArgs ==
    <<"a", "r", "g", "s">>

TextRaw ==
    <<"r", "a", "w">>

TextEnv ==
    <<"e", "n", "v">>

\* the spelling of the keys of a parsed input
KeyText(key) ==
    CASE key = "command" -> TextCommand
      [] key = "args" -> TextArgs
      [] key = "raw" -> TextRaw
      [] key = "env" -> TextEnv

\* the output patterns of _is_error_output
ErrorPatterns ==
    { <<"e", "r", "r", "o", "r", ":">>,
      <<"e", "r", "r", "o", "r", " ", "(", "e", "x", "i", "t">>,
      <<"f", "a", "i", "l", "e", "d">>,
      <<"t", "i", "m", "e", "o", "u", "t">>,
      <<"\"", "s", "u", "c", "c", "e", "s", "s", "\"", ":", " ", "f", "a", "l", "s", "e">>,
      <<"'", "s", "u", "c", "c", "e", "s", "s", "'", ":", " ", "f", "a", "l", "s", "e">> }

\* the texts that _is_empty_output takes for empty
EmptyTexts ==
    { <<>>, <<"n", "o", "n", "e">>, <<"n", "u", "l", "l">>, <<"[", "]">>, <<"{", "}">> }

\* _is_error_output; output is None or Some(text)
_is_error_output(output) ==
    IF ~output.some \/ output.v = <<>> THEN FALSE
    ELSE \E p \in ErrorPatterns : Contains(Lower(output.v), p)

\* _is_empty_output
_is_empty_output(output) ==
    IF ~output.some THEN TRUE ELSE Strip(output.v) \in EmptyTexts

\* ------------------------------------------------------------------------
\* collector.py: tool inputs.  An input is the text the runtime hands over,
\* together with what json.loads / ast.literal_eval make of it: form is
\* "json" or "literal" for a mapping in that notation, "text" for a text that
\* is neither, "empty" for "".  A mapping is a sequence of <<key, value>>; a
\* value is a text (kind "str"), JSON's null (kind "null"), a list of values
\* (kind "list", the values in items) or a mapping (kind "dict", the keys in
\* keys and their values in items).
\* ------------------------------------------------------------------------
StrValue(text) == [kind |-> "str", text |-> text, items |-> <<>>, keys |-> <<>>]

NullValue ==
    [kind |-> "null", text |-> <<"n", "u", "l", "l">>, items |-> <<>>, keys |-> <<>>]

ListValue(items) == [kind |-> "list", text |-> <<>>, items |-> items, keys |-> <<>>]

DictValue(pairs) ==
    [kind |-> "dict", text |-> <<>>,
     items |-> [i \in 1..Len(pairs) |-> pairs[i][2]],
     keys |-> [i \in 1..Len(pairs) |-> pairs[i][1]]]

\* the <<key, value>> pairs of a mapping value
PairsOf(value) == [i \in 1..Len(value.items) |-> <<value.keys[i], value.items[i]>>]

RECURSIVE ValueText(_, _)
RECURSIVE MappingBody(_, _)
RECURSIVE ListBody(_, _)
\* the text of a value inside a JSON / Python-literal mapping
ValueText(value, quote) ==
    CASE value.kind = "str" -> <<quote>> \o value.text \o <<quote>>
      [] value.kind = "null" -> value.text
      [] value.kind = "list" -> <<"[">> \o ListBody(value.items, quote) \o <<"]">>
      [] value.kind = "dict" -> <<"{">> \o MappingBody(PairsOf(value), quote) \o <<"}">>

ListBody(items, quote) ==
    IF items = <<>> THEN <<>>
    ELSE ValueText(items[1], quote)
         \o (IF Len(items) > 1 THEN <<",", " ">> ELSE <<>>)
         \o ListBody(Tail(items), quote)

MappingBody(pairs, quote) ==
    IF pairs = <<>> THEN <<>>
    ELSE <<quote>> \o KeyText(pairs[1][1]) \o <<quote, ":", " ">>
         \o ValueText(pairs[1][2], quote)
         \o (IF Len(pairs) > 1 THEN <<",", " ">> ELSE <<>>)
         \o MappingBody(Tail(pairs), quote)

JsonInput(pairs) ==
    [form |-> "json", pairs |-> pairs,
     text |-> <<"{">> \o MappingBody(pairs, "\"") \o <<"}">>]

LiteralInput(pairs) ==
    [form |-> "literal", pairs |-> pairs,
     text |-> <<"{">> \o MappingBody(pairs, "'") \o <<"}">>]

TextInput(text) ==
    [form |-> IF text = <<>> THEN "empty" ELSE "text", pairs |-> <<>>, text |-> text]

\* _parse_input: the parsed mapping
_parse_input(input) ==
    IF input.text = <<>> THEN <<>>
    ELSE IF input.form \in {"json", "literal"} THEN input.pairs
    ELSE << <<"raw", StrValue(input.text)>> >>

\* dict.get(key): None or Some(value); a null value reads as None
Get(parsed, key) ==
    IF \E i \in 1..Len(parsed) : parsed[i][1] = key /\ parsed[i][2].kind # "null"
    THEN Some(parsed[CHOOSE i \in 1..Len(parsed) : parsed[i][1] = key][2])
    ELSE None

\* _expand_docker_cli: None or Some(DockerCliArgs), cwd and timeout left out
_expand_docker_cli(parsed) ==
    LET command == Get(parsed, "command")
        args == Get(parsed, "args")
        has_args == args.some /\ args.v.text # <<>> IN
    IF ~command.some THEN None
    ELSE Some([command |-> command.v.text,
               args |-> IF has_args THEN Some(args.v.text) ELSE None,
               full_command |-> <<"d", "o", "c", "k", "e", "r", " ">>
                                \o command.v.text
                                \o (IF has_args THEN <<" ">> \o args.v.text
                                    ELSE <<>>)])

\* ------------------------------------------------------------------------
\* collector.py: redaction
\* ------------------------------------------------------------------------
\* \w of the credential pattern
WordChars ==
    { "a", "b", "c", "d", "e", "f", "g", "h", "i", "j", "k", "l", "m", "n", "o",
      "p", "q", "r", "s", "t", "u", "v", "w", "x", "y", "z", "0", "1", "2", "3",
      "4", "5", "6", "7", "8", "9", "_" } \cup DOMAIN UpperCase

\* the characters that end a credential value: [\s,;\n\]}{"']
ValueEnds == { " ", "\n", "\t", ",", ";", "]", "}", "{", "\"", "'" }

\* the secret-sounding parts of a key
SecretWords ==
    { <<"p", "a", "s", "s", "w", "o", "r", "d">>,
      <<"p", "a", "s", "s", "w", "d">>,
      <<"s", "e", "c", "r", "e", "t">>,
      <<"t", "o", "k", "e", "n">>,
      <<"a", "p", "i", "_", "k", "e", "y">>,
      <<"a", "p", "i", "k", "e", "y">>,
      <<"a", "u", "t", "h">>,
      <<"c", "r", "e", "d", "e", "n", "t", "i", "a", "l">> }

Redacted == <<"[", "R", "E", "D", "A", "C", "T", "E", "D", "]">>

\* the first position from i on whose character is outside S (Len + 1 if none)
RECURSIVE RunEnd(_, _, _)
RunEnd(text, i, S) ==
    IF i > Len(text) THEN Len(text) + 1
    ELSE IF text[i] \notin S THEN i
    ELSE RunEnd(text, i + 1, S)

\* the first position from i on that holds a character of S, Len(text) + 1 if
\* there is none
RECURSIVE Find(_, _, _)
Find(text, i, S) ==
    IF i > Len(text) THEN Len(text) + 1
    ELSE IF text[i] \in S THEN i
    ELSE Find(text, i + 1, S)

\* the match of _REDACT_RE that starts at position i, if there is one: the key
\* is text[i .. sep - 1], the value text[val .. stop - 1]
MatchAt(text, i) ==
    LET sep == RunEnd(text, i, WordChars)
        val == RunEnd(text, sep + 1, {" ", "\n", "\t"})
        stop == Find(text, val, ValueEnds) IN
    IF /\ sep > i
       /\ sep <= Len(text)
       /\ text[sep] \in {"=", ":"}
       /\ \E w \in SecretWords : Contains(Lower(SubSeq(text, i, sep - 1)), w)
       /\ stop - val >= 3
    THEN [ok |-> TRUE, sep |-> sep, stop |-> stop]
    ELSE [ok |-> FALSE, sep |-> 0, stop |-> 0]

\* re.sub over the text, left to right, matches do not overlap
RECURSIVE RedactFrom(_, _)
RedactFrom(text, i) ==
    IF i > Len(text) THEN <<>>
    ELSE LET m == MatchAt(text, i) IN
         IF m.ok THEN SubSeq(text, i, m.sep) \o Redacted \o RedactFrom(text, m.stop)
         ELSE IF text[i] \in WordChars
         THEN \* no later start inside this run of word characters matches either
              LET next == RunEnd(text, i, WordChars) IN
              SubSeq(text, i, next - 1) \o RedactFrom(text, next)
         ELSE <<text[i]>> \o RedactFrom(text, i + 1)

_redact_string(text) == RedactFrom(text, 1)

\* one value of _redact_dict: a text is redacted, a mapping is redacted value
\* by value, any other value is kept
RECURSIVE RedactValue(_)
RedactValue(value) ==
    CASE value.kind = "str" -> StrValue(_redact_string(value.text))
      [] value.kind = "dict" ->
            [value EXCEPT !.items = [i \in 1..Len(value.items) |->
                                        RedactValue(value.items[i])]]
      [] OTHER -> value

\* _redact_dict
_redact_dict(parsed) ==
    [i \in 1..Len(parsed) |-> << parsed[i][1], RedactValue(parsed[i][2]) >>]

\* x if x is None or "", the redacted text otherwise
RedactIfSet(x) == IF x.some /\ x.v # <<>> THEN Some(_redact_string(x.v)) ELSE x

RedactCall(tc) ==
    [tc EXCEPT
        !.input_raw = _redact_string(@),
        !.input_parsed = _redact_dict(@),
        !.output = RedactIfSet(@),
        !.error = RedactIfSet(@),
        !.docker_cli_args =
            IF @.some
            THEN Some([@.v EXCEPT !.args = RedactIfSet(@),
                                  !.full_command = _redact_string(@)])
            ELSE None]

\* _redact_tool_calls
_redact_tool_calls(calls) == [i \in 1..Len(calls) |-> RedactCall(calls[i])]

\* ------------------------------------------------------------------------
\* docker_tools.py: the output shaper.  A text is a sequence of characters.
\* ------------------------------------------------------------------------
\* DOCKER_TOOL_MAX_STRING_CHARS and DOCKER_TOOL_MAX_RESPONSE_CHARS of the
\* deployment (1200 and 4000 when the environment sets neither)
MAX_TOOL_STRING_CHARS == 4

MAX_TOOL_RESPONSE_CHARS == 20

\* str(n) of a number n >= 0
RECURSIVE Decimal(_)
Decimal(n) ==
    LET digit == <<"0", "1", "2", "3", "4", "5", "6", "7", "8", "9">>[(n % 10) + 1] IN
    IF n < 10 THEN <<digit>> ELSE Decimal(n \div 10) \o <<digit>>

\* value[:n], n >= 0
Prefix(value, n) == SubSeq(value, 1, IF n < Len(value) THEN n ELSE Len(value))

\* value[-n:], n >= 0: -0 is 0, so value[-0:] is the whole value
Suffix(value, n) ==
    IF n = 0 \/ n >= Len(value) THEN value
    ELSE SubSeq(value, Len(value) - n + 1, Len(value))

\* "\n... [TRUNCATED {omitted} chars of logs] ...\n"
TruncatedMarker(omitted) ==
    <<"\n", ".", ".", ".", " ", "[", "T", "R", "U", "N", "C", "A", "T", "E", "D", " ">>
        \o Decimal(omitted)
        \o <<" ", "c", "h", "a", "r", "s", " ", "o", "f", " ", "l", "o", "g", "s", "]", " ", ".", ".", ".", "\n">>

\* _truncate_text(value, max_chars)
_truncate_text(value, max_chars) ==
    IF Len(value) <= max_chars THEN value
    ELSE LET half == max_chars \div 2
             omitted == Len(value) - max_chars IN
         Prefix(value, half) \o TruncatedMarker(omitted) \o Suffix(value, half)

\* json.dumps of a string whose characters are letters, digits, blanks,
\* brackets, dots and line ends: a line end is written as \n
RECURSIVE JsonEscaped(_)
JsonEscaped(text) ==
    IF text = <<>> THEN <<>>
    ELSE (IF Head(text) = "\n" THEN <<"\\", "n">> ELSE <<Head(text)>>)
             \o JsonEscaped(Tail(text))

JsonString(text) == <<"\"">> \o JsonEscaped(text) \o <<"\"">>

\* json.dumps(data, indent=2) of a dict of strings, its pairs in order
RECURSIVE JsonMembers(_)
JsonMembers(pairs) ==
    IF pairs = <<>> THEN <<>>
    ELSE <<" ", " ">> \o JsonString(pairs[1][1]) \o <<":", " ">>
             \o JsonString(pairs[1][2])
             \o (IF Len(pairs) > 1 THEN <<",">> ELSE <<>>) \o <<"\n">>
             \o JsonMembers(Tail(pairs))

JsonDumps(pairs) ==
    IF pairs = <<>> THEN <<"{", "}">>
    ELSE <<"{", "\n">> \o JsonMembers(pairs) \o <<"}">>

\* _truncate_data of a dict of strings with fewer than MAX_TOOL_DICT_ITEMS
\* keys: every value goes through _truncate_text with the string budget
_truncate_data(pairs) ==
    [i \in 1..Len(pairs) |->
        <<pairs[i][1], _truncate_text(pairs[i][2], MAX_TOOL_STRING_CHARS)>>]

\* _json(data)
_json(pairs) == _truncate_text(JsonDumps(_truncate_data(pairs)), MAX_TOOL_RESPONSE_CHARS)

\* ------------------------------------------------------------------------
\* State
\* ------------------------------------------------------------------------
VARIABLES
    g_pc,       \* gateway: "call" before the tool call, "done" after it
    g_in,       \* gateway: the tool called and its arguments
    g_out,      \* gateway: [result, spawns, checked] of the call
    g_env,      \* gateway: the host the call ran on
    p_pc,       \* paths: "call" / "done"
    p_path,     \* paths: the argument of _resolve_workspace_path
    p_result,   \* paths: what it returned or raised
    c_tool_calls,   \* recorder: _tool_calls
    c_pending,      \* recorder: _pending_tools, by run id
    c_seq,          \* recorder: _sequence_counter
    c_loop,         \* recorder: _loop_detected
    c_empty,        \* recorder: _consecutive_empty
    c_streak,       \* recorder: _same_tool_streak
    c_started_at,   \* recorder: _started_at
    c_redact,       \* recorder: _redact
    c_now,          \* the clock
    c_last,         \* the callback handled last
    c_record,       \* what the callback handled last returned
    h_open,         \* run ids started and not ended or cleared since
    c_llm_calls,    \* recorder: _llm_calls
    c_llm_pending,  \* recorder: _pending_llms, by run id
    h_starts,       \* the times of the on_tool_start calls since construction
                    \* or the last clear()
    f_pc,       \* one call of a function of the recorder: "call" / "done"
    f_in,       \* its argument
    f_out,      \* its result
    d_trajectory,   \* runtime callback: trajectory
    d_loop,         \* runtime callback: _loop_detected
    d_history,      \* runtime callback: _command_history
    d_counts,       \* runtime callback: its five counter dicts
    d_result,       \* runtime callback: how the callback handled last ended
    t_pc,       \* threads: where each thread stands in the callback it runs
    t_lock,     \* threads: [owner, depth] of the recorder's self._lock
    t_reg,      \* threads: the local variables of each thread
    x_pc,       \* executor: where the caller of execute stands
    x_main,     \* executor: the caller is the main thread of a host with signals
    x_prog,     \* executor: the program
    x_at,       \* executor: the statement of the program that runs next
    x_run,      \* executor: "none", "running", "finished" or "raised"
    x_alarm,    \* executor: the SIGALRM timer: "off", "armed" or "fired"
    x_clock,    \* executor: seconds since execute was called
    x_buffer,   \* executor: output_buffer
    x_exc,      \* executor: the exception that left the program
    x_result,   \* executor: what execute returned
    x_calls,    \* executor: the calls of injected tool functions so far
    r_pc,       \* graph runtime: the node that runs next, "idle" between turns
    r_state,    \* graph runtime: the CoordinatorState of the turn
    r_saved,    \* graph runtime: the state the checkpointer holds
    r_replan_attempts,  \* graph runtime: CoordinatorDockerNode.replan_attempts
    r_steps,    \* graph runtime: the nodes run in this turn
    r_turns,    \* graph runtime: the calls of run_turn so far
    r_mark,     \* graph runtime: the length of _command_history when the turn
                \* began, 0 when a replan of the turn has cleared it since
    r_result,   \* graph runtime: how the last run_turn ended
    k_pc,       \* CLI: where main stands
    k_opts,     \* CLI: the command line options
    k_input,    \* CLI: the text of the turn
    k_records,  \* CLI: the records written to the trajectory log
    k_exc       \* CLI: the exception that ended main

gvars == <<g_pc, g_in, g_out, g_env>>

pvars == <<p_pc, p_path, p_result>>

cvars ==
    <<c_tool_calls, c_pending, c_seq, c_loop, c_empty, c_streak, c_started_at,
      c_redact, c_now, c_last, c_record, h_open, c_llm_calls, c_llm_pending,
      h_starts>>

\* the LLM side of the recorder
lvars == <<c_llm_calls, c_llm_pending>>

fvars == <<f_pc, f_in, f_out>>

\* the variables of the other components
dvars == <<d_trajectory, d_loop, d_history, d_counts, d_result>>

\* the threads that call one recorder
tvars == <<t_pc, t_lock, t_reg>>

\* one call of CodeExecutor.execute
xvars ==
    <<x_pc, x_main, x_prog, x_at, x_run, x_alarm, x_clock, x_buffer, x_exc,
      x_result, x_calls>>

\* the graph runtime
rvars ==
    <<r_pc, r_state, r_saved, r_replan_attempts, r_steps, r_turns, r_mark,
      r_result>>

\* the command line frontend
kvars == <<k_pc, k_opts, k_input, k_records, k_exc>>

ovars == <<rvars, kvars>>

nvars == <<fvars, dvars, tvars, xvars, ovars>>

vars ==
    <<g_pc, g_in, g_out, g_env, p_pc, p_path, p_result, c_tool_calls, c_pending,
      c_seq, c_loop, c_empty, c_streak, c_started_at, c_redact, c_now, c_last,
      c_record, h_open, c_llm_calls, c_llm_pending, h_starts, f_pc, f_in, f_out,
      d_trajectory, d_loop, d_history, d_counts, d_result, t_pc, t_lock, t_reg,
      x_pc, x_main, x_prog, x_at, x_run, x_alarm, x_clock, x_buffer, x_exc,
      x_result, x_calls, r_pc, r_state, r_saved, r_replan_attempts, r_steps, r_turns,
      r_mark, r_result, k_pc, k_opts, k_input, k_records, k_exc>>

\* ------------------------------------------------------------------------
\* Inputs of the gateway
\* ------------------------------------------------------------------------
\* tokens of an argument list
Tokens ==
    { <<"ps">>, <<"rm">>, <<"run">>, <<"compose">>, <<"network">>, <<"ls">>,
      <<"-", "f">>, <<"nginx">>,
      <<"nginx", ";", "rm">>, <<"&", "&">>, <<"&">>, <<"|">>,
      <<"$", "(", "id", ")">>, <<Backquote, "id", Backquote>> }

\* the commands the agent is told about, as argument lists
Commands ==
    { << <<"ps">> >>, << <<"images">> >>, << <<"logs">> >>, << <<"stats">> >>,
      << <<"inspect">> >>, << <<"start">> >>, << <<"stop">> >>,
      << <<"restart">> >>, << <<"info">> >>, << <<"version">> >>,
      << <<"run">> >>, << <<"pull">> >>, << <<"build">> >>, << <<"tag">> >>,
      << <<"exec">> >>, << <<"rmi">> >>, << <<"system">>, <<"prune">> >>,
      << <<"network">>, <<"ls">> >>, << <<"network">>, <<"inspect">> >>,
      << <<"network">>, <<"create">> >>, << <<"network">>, <<"connect">> >>,
      << <<"network">>, <<"disconnect">> >>, << <<"network">>, <<"rm">> >>,
      << <<"volume">>, <<"ls">> >>, << <<"volume">>, <<"inspect">> >>,
      << <<"volume">>, <<"create">> >>, << <<"volume">>, <<"rm">> >>,
      << <<"compose">>, <<"ps">> >>, << <<"compose">>, <<"logs">> >>,
      << <<"compose">>, <<"up">> >>, << <<"compose">>, <<"down">> >>,
      << <<"compose">>, <<"-", "f">>, <<"nginx">>, <<"ps">> >>,
      << <<"compose">>, <<"-", "f">>, <<"nginx">>, <<"up">> >> }

RECURSIVE SeqsUpTo(_, _)
SeqsUpTo(S, n) ==
    IF n = 0 THEN { <<>> }
    ELSE LET shorter == SeqsUpTo(S, n - 1) IN
         shorter \cup { Append(q, x) : q \in shorter, x \in S }

ArgLists ==
    SeqsUpTo(Tokens, MaxArgs)
        \cup { c \o rest : c \in Commands,
                            rest \in { <<>>, << <<"nginx">> >>,
                                       << <<"nginx">>, <<"|">> >> } }

\* command and args texts given to docker_bash
CommandTexts ==
    { <<>>, <<" ">>, <<"ps">>, <<"docker", " ", "ps">>, <<"docker">>,
      <<"logs">>, <<"rm">>, <<"run">>, <<"system", " ", "prune">>,
      <<"compose", " ", "up">>, <<"compose", " ", "ps">>,
      <<"network", " ", "ls">>, <<"network">>, <<"ps", " ", ";", " ", "rm">>,
      <<"rm", ";">>, <<"'", "ps">>, <<"'", "ps", "'">> }

ArgTexts ==
    { None, Some(<<>>), Some(<<"-", "a">>),
      Some(<<"-", "a", " ", ";", " ", "rm", " ", "-", "rf", " ", "/">>),
      Some(<<"'", "nginx", " ", "web">>), Some(<<"-", "f", " ", "x", " ", "ps">>) }

\* working directories given to docker_bash and the compose tools
CwdTexts ==
    { None, Some(<<"/">>), Some(<<"w">>), Some(<<".", ".">>),
      Some(<<".", ".", "/", ".", ".">>), Some(<<"l">>) }

Timeouts == {7, DOCKER_CLI_TIMEOUT_SECONDS}

FilePaths == { <<"/", "w">>, <<".", ".", "/", "w">>, <<"l", "/", "w">> }

ComposeFlags == {{}, {"detach"}, {"detach", "build"}, {"remove_orphans", "volumes"}}

NoInput ==
    [tool |-> "none", args |-> <<>>, command |-> <<>>, argtext |-> None,
     cwd |-> None, timeout |-> DOCKER_CLI_TIMEOUT_SECONDS, file_path |-> <<>>,
     project_name |-> None, flags |-> {}]

GatewayInputs ==
    { [NoInput EXCEPT !.tool = "_run_safe_docker_cli", !.args = a] : a \in ArgLists }
    \cup
    { [NoInput EXCEPT !.tool = "docker_bash", !.command = c, !.argtext = a,
                      !.cwd = d, !.timeout = t] :
        c \in CommandTexts, a \in ArgTexts, d \in CwdTexts, t \in Timeouts }
    \cup
    { [NoInput EXCEPT !.tool = k, !.file_path = f, !.project_name = pn,
                      !.flags = fl, !.cwd = d] :
        k \in {"compose_up", "compose_down"}, f \in FilePaths,
        pn \in {None, Some(<<"demo">>)}, fl \in ComposeFlags, d \in CwdTexts }
    \cup
    { [NoInput EXCEPT !.tool = "remove_container", !.args = << <<"nginx">> >>] }
    \cup
    { [NoInput EXCEPT !.tool = "_run_docker_cli", !.args = a, !.timeout = t] :
        a \in { << <<"ps">> >>, << <<"rm">>, <<"nginx">> >> }, t \in Timeouts }

NoOutput == [result |-> Returned(<<>>), spawns |-> <<>>, checked |-> {}]

\* ------------------------------------------------------------------------
\* The gateway: one tool call
\* ------------------------------------------------------------------------
NoEnv == CHOOSE e \in CliEnvs : TRUE

GatewayIdle ==
    g_pc = "off" /\ g_in = NoInput /\ g_out = NoOutput /\ g_env = NoEnv

GatewayInit ==
    g_pc = "call" /\ g_in \in GatewayInputs /\ g_out = NoOutput /\ g_env = NoEnv

Finish(out, env) ==
    g_pc' = "done" /\ g_out' = out /\ g_env' = env /\ UNCHANGED <<g_in, pvars, cvars, nvars>>

\* a direct call of _run_docker_cli
RunDockerCli ==
    /\ g_pc = "call" /\ g_in.tool = "_run_docker_cli"
    /\ \E env \in CliEnvs :
         Finish([result |-> _run_docker_cli(g_in.args, g_in.cwd, g_in.timeout, env),
                 spawns |-> RunDockerCliSpawns(g_in.args, g_in.cwd, g_in.timeout, env),
                 checked |-> {}], env)

\* the host shows only once the command has passed validation
RunSafeDockerCli ==
    /\ g_pc = "call" /\ g_in.tool = "_run_safe_docker_cli"
    /\ \E env \in IF _validate_docker_command(g_in.args).raised
                  THEN {NoEnv} ELSE CliEnvs :
         Finish(_run_safe_docker_cli(g_in.args, g_in.cwd, g_in.timeout, env), env)

DockerBash ==
    /\ g_pc = "call" /\ g_in.tool = "docker_bash"
    /\ \E env \in CliEnvs :
         Finish(docker_bash(g_in.command, g_in.argtext, g_in.cwd, g_in.timeout, env),
                env)

ComposeUp ==
    /\ g_pc = "call" /\ g_in.tool = "compose_up"
    /\ \E env \in Envs :
         /\ env.proc.kind # "timeout"
         /\ Finish(compose_up(g_in.file_path, g_in.project_name, g_in.flags,
                              g_in.cwd, env), env)

ComposeDown ==
    /\ g_pc = "call" /\ g_in.tool = "compose_down"
    /\ \E env \in Envs :
         /\ env.proc.kind # "timeout"
         /\ Finish(compose_down(g_in.file_path, g_in.project_name, g_in.flags,
                                g_in.cwd, env), env)

RemoveContainer ==
    /\ g_pc = "call" /\ g_in.tool = "remove_container"
    /\ \E env \in CliEnvs : Finish(remove_container(g_in.args[1], env), env)

\* ------------------------------------------------------------------------
\* Workspace paths: one call of _resolve_workspace_path
\* ------------------------------------------------------------------------
PathTexts == { None } \cup { Some(t) : t \in SeqsUpTo(PathChars, MaxPathLen) }

PathIdle == p_pc = "off" /\ p_path = None /\ p_result = Returned(<<>>)

PathInit == p_pc = "call" /\ p_path \in PathTexts /\ p_result = Returned(<<>>)

ResolveWorkspacePath ==
    /\ p_pc = "call"
    /\ p_pc' = "done"
    /\ p_result' = _resolve_workspace_path(p_path)
    /\ UNCHANGED <<p_path, gvars, cvars, nvars>>

\* ------------------------------------------------------------------------
\* The trajectory recorder, its callbacks delivered one at a time
\* ------------------------------------------------------------------------
\* The clock stands for time.time() and datetime.now(): it moves on by one
\* whenever a tool call starts, so a call ends later than it started and calls
\* started one after the other have different start times. A recorder sees at
\* most MaxCalls tool calls start.

\* the max_repeated_calls the recorder is constructed with
max_repeated_calls == 2

RunIds == {"r1", "r2"}

\* the tool calls the agent starts: the tool's name and its input string
ToolStarts ==
    { [tool |-> "docker_cli",
       input |-> LiteralInput(
           << <<"command", StrValue(<<"p", "s">>)>>,
              <<"args", StrValue(<<"a", "u", "t", "h", "=", "a", "b", "c">>)>> >>)],
      [tool |-> "list_files", input |-> TextInput(<<"n", "o">>)] }

Outputs == { Some(<<"o", "k">>), Some(<<>>), Some(<<"E", "r", "r", "o", "r", ":", " ", "x">>) }

ErrorTexts == { <<"b", "o", "o", "m">> }

Tasks == { <<"r", "u", "n", " ", "a", "u", "t", "h", "=", "a", "b", "c">> }

NoPending ==
    [present |-> FALSE, tool |-> "", input_raw |-> <<>>, input_parsed |-> <<>>,
     docker_cli_args |-> None, start_time |-> 0, sequence |-> 0]

NoEvent == [op |-> "none", run_id |-> "", hit |-> FALSE]

\* the run ids of LLM calls
LlmIds == {"l1"}

NoLlmPending == [present |-> FALSE, model |-> "", start_time |-> 0]

\* no function call is modelled
FunctionsIdle == f_pc = "off" /\ f_in = None /\ f_out = None

\* the threads that share a recorder
Threads == {"t1", "t2"}

Unlocked == [owner |-> "", depth |-> 0]

NoLocals == [tool |-> "", input |-> <<>>, stamp |-> FALSE, seq |-> 0,
             started |-> FALSE, result |-> "", completed |-> 0]

\* the recorder is called from one thread, one callback after the other
ThreadsIdle ==
    /\ t_pc = [th \in Threads |-> "idle"]
    /\ t_lock = Unlocked
    /\ t_reg = [th \in Threads |-> NoLocals]

\* CoordinatorState() with every field None
EmptyState ==
    [user_input |-> None, route |-> None, docker_request |-> None,
     docker_response |-> None, final_response |-> None, error |-> None]

\* no turn has run
RuntimeIdle ==
    /\ r_pc = "off" /\ r_state = EmptyState /\ r_saved = EmptyState
    /\ r_replan_attempts = 0 /\ r_steps = 0 /\ r_turns = 0 /\ r_mark = 0
    /\ r_result = None

\* main has not been called
CliIdle ==
    /\ k_pc = "off" /\ k_opts = None /\ k_input = None /\ k_records = <<>>
    /\ k_exc = None

\* no program is executed
ExecutorIdle ==
    /\ x_pc = "off" /\ x_main = FALSE /\ x_prog = None /\ x_at = 0
    /\ x_run = "none" /\ x_alarm = "off" /\ x_clock = 0 /\ x_buffer = <<>>
    /\ x_exc = None /\ x_result = None /\ x_calls = 0

CollectorIdle ==
    /\ c_tool_calls = <<>> /\ c_pending = [r \in RunIds |-> NoPending]
    /\ c_seq = 0 /\ c_loop = FALSE /\ c_empty = 0
    /\ c_streak = [tool |-> "", count |-> 0]
    /\ c_started_at = None /\ c_redact = TRUE /\ c_now = 0
    /\ c_last = NoEvent /\ c_record = None /\ h_open = {}
    /\ c_llm_calls = <<>> /\ c_llm_pending = [l \in LlmIds |-> NoLlmPending]
    /\ h_starts = {}

\* TrajectoryCollector.__init__; the streak names no tool yet
CollectorInit ==
    /\ c_tool_calls = <<>> /\ c_pending = [r \in RunIds |-> NoPending]
    /\ c_seq = 0 /\ c_loop = FALSE /\ c_empty = 0
    /\ c_streak = [tool |-> "", count |-> 0]
    /\ c_started_at = None /\ c_redact = TRUE /\ c_now = 0
    /\ c_last = NoEvent /\ c_record = None /\ h_open = {}
    /\ c_llm_calls = <<>> /\ c_llm_pending = [l \in LlmIds |-> NoLlmPending]
    /\ h_starts = {}

Event(op, r, hit) == [op |-> op, run_id |-> r, hit |-> hit]

\* every on_tool_start moves _started_at
LatestStart(started_at, now) == Some(now)

\* if self._started_at is None: self._started_at = datetime.now(...)
FirstStart(started_at, now) == IF ~started_at.some THEN Some(now) ELSE started_at

\* on_tool_start
tool_started(tool_name, input, r) ==
    /\ c_started_at' = FirstStart(c_started_at, c_now)
    /\ LET parsed == _parse_input(input) IN
       c_pending' =
           [c_pending EXCEPT ![r] =
               [present |-> TRUE, tool |-> tool_name, input_raw |-> input.text,
                input_parsed |-> parsed,
                docker_cli_args |-> IF tool_name = "docker_cli"
                                    THEN _expand_docker_cli(parsed) ELSE None,
                start_time |-> c_now, sequence |-> c_seq]]
    /\ c_seq' = c_seq + 1
    /\ c_now' = c_now + 1
    /\ c_last' = Event("on_tool_start", r, TRUE)
    /\ h_open' = h_open \cup {r}
    /\ h_starts' = h_starts \cup {c_now}
    /\ c_record' = None
    /\ UNCHANGED <<c_tool_calls, c_loop, c_empty, c_streak, c_redact, lvars,
                   gvars, pvars, nvars>>

\* on_tool_start of a recorder that sees at most MaxCalls tool calls start
on_tool_start(tool_name, input, r) ==
    c_now < MaxCalls /\ tool_started(tool_name, input, r)

\* a pop that leaves the entry in the dict
NotPopped(pending, r) == pending

\* dict.pop(run_id, None): what is left of the pending calls
Popped(pending, r) == [pending EXCEPT ![r] = NoPending]

\* the ToolCallRecord built from a pending call
Record(pending, r, output, success, error, end_time) ==
    [tool |-> pending.tool, input_raw |-> pending.input_raw,
     input_parsed |-> pending.input_parsed,
     docker_cli_args |-> pending.docker_cli_args,
     output |-> output, success |-> success, error |-> error,
     start_time |-> pending.start_time, end_time |-> end_time,
     latency |-> end_time - pending.start_time,
     run_id |-> r, sequence |-> pending.sequence]

\* json.dumps(input_parsed, sort_keys=True)[:200] of two records agree; the
\* inputs of the model are shorter than 200 characters
SameInput(a, b) ==
    {a.input_parsed[i] : i \in 1..Len(a.input_parsed)}
        = {b.input_parsed[i] : i \in 1..Len(b.input_parsed)}

\* _update_loop_detection, calls being _tool_calls with the new record in it:
\* the new [empty, streak, loop]
_update_loop_detection(tool_name, is_empty, calls) ==
    LET empty == IF is_empty THEN c_empty + 1 ELSE 0
        streak == IF tool_name = c_streak.tool
                  THEN [c_streak EXCEPT !.count = @ + 1]
                  ELSE [tool |-> tool_name, count |-> 1]
        n == Len(calls)
        recent == SubSeq(calls, n - max_repeated_calls + 1, n)
        identical == /\ n >= max_repeated_calls
                     /\ \A i \in 1..Len(recent) :
                            /\ recent[i].tool = recent[1].tool
                            /\ SameInput(recent[i], recent[1]) IN
    [empty |-> empty, streak |-> streak,
     loop |-> \/ c_loop
              \/ empty >= max_repeated_calls
              \/ streak.count >= max_repeated_calls + 1
              \/ identical]

\* an output counts as a success unless it is error-like
SuccessUnlessError(is_error, is_empty) == ~is_error

\* success = not (is_error or is_empty)
Success(is_error, is_empty) == ~(is_error \/ is_empty)

\* on_tool_end; str(output)[:4000] and [:500] keep the outputs of the model
on_tool_end(output, r) ==
    IF ~c_pending[r].present
    THEN /\ c_last' = Event("on_tool_end", r, FALSE)
         /\ c_record' = None
         /\ h_open' = h_open \ {r}
         /\ UNCHANGED <<c_tool_calls, c_pending, c_seq, c_loop, c_empty, c_streak,
                        c_started_at, c_redact, c_now, gvars, pvars, xvars, ovars,
                        lvars, h_starts, nvars>>
    ELSE LET pending == c_pending[r]
             is_error == _is_error_output(output)
             is_empty == _is_empty_output(output)
             record == Record(pending, r,
                              IF output.some /\ output.v # <<>> THEN output
                              ELSE None,
                              Success(is_error, is_empty),
                              IF is_error THEN output ELSE None, c_now)
             calls == Append(c_tool_calls, record)
             loops == _update_loop_detection(pending.tool, is_empty, calls) IN
         /\ c_pending' = Popped(c_pending, r)
         /\ c_tool_calls' = calls
         /\ c_empty' = loops.empty
         /\ c_streak' = loops.streak
         /\ c_loop' = loops.loop
         /\ c_last' = Event("on_tool_end", r, TRUE)
         /\ h_open' = h_open \ {r}
         /\ c_record' = None
         /\ UNCHANGED <<c_seq, c_started_at, c_redact, c_now, gvars, pvars, xvars, ovars,
                        lvars, h_starts, nvars>>

\* on_tool_error; error is str(exception)
on_tool_error(error, r) ==
    IF ~c_pending[r].present
    THEN /\ c_last' = Event("on_tool_error", r, FALSE)
         /\ c_record' = None
         /\ h_open' = h_open \ {r}
         /\ UNCHANGED <<c_tool_calls, c_pending, c_seq, c_loop, c_empty, c_streak,
                        c_started_at, c_redact, c_now, gvars, pvars, xvars, ovars,
                        lvars, h_starts, nvars>>
    ELSE /\ c_pending' = Popped(c_pending, r)
         /\ c_tool_calls' = Append(c_tool_calls,
                                   Record(c_pending[r], r, None, FALSE,
                                          Some(error), c_now))
         /\ c_last' = Event("on_tool_error", r, TRUE)
         /\ h_open' = h_open \ {r}
         /\ c_record' = None
         /\ UNCHANGED <<c_seq, c_loop, c_empty, c_streak, c_started_at, c_redact,
                        c_now, gvars, pvars, xvars, ovars,
                        lvars, h_starts, nvars>>

\* on_llm_start / on_chat_model_start; a recorder sees at most MaxLlmCalls
\* LLM calls complete between two clear()
on_llm_start(model, l) ==
    /\ Len(c_llm_calls) < MaxLlmCalls
    /\ c_llm_pending' = [c_llm_pending EXCEPT ![l] =
                             [present |-> TRUE, model |-> model, start_time |-> c_now]]
    /\ c_last' = Event("on_llm_start", l, TRUE)
    /\ c_record' = None
    /\ UNCHANGED <<c_tool_calls, c_pending, c_seq, c_loop, c_empty, c_streak,
                   c_started_at, c_redact, c_now, h_open, c_llm_calls, h_starts,
                   gvars, pvars, nvars>>

\* on_llm_end, the token usage left out
on_llm_end(l) ==
    IF ~c_llm_pending[l].present
    THEN /\ c_last' = Event("on_llm_end", l, FALSE)
         /\ c_record' = None
         /\ UNCHANGED <<c_tool_calls, c_pending, c_seq, c_loop, c_empty, c_streak,
                        c_started_at, c_redact, c_now, h_open, lvars, h_starts,
                        gvars, pvars, nvars>>
    ELSE /\ c_llm_pending' = [c_llm_pending EXCEPT ![l] = NoLlmPending]
         /\ c_llm_calls' =
                Append(c_llm_calls,
                       [model |-> c_llm_pending[l].model,
                        start_time |-> c_llm_pending[l].start_time,
                        end_time |-> c_now,
                        latency |-> c_now - c_llm_pending[l].start_time,
                        run_id |-> l])
         /\ c_last' = Event("on_llm_end", l, TRUE)
         /\ c_record' = None
         /\ UNCHANGED <<c_tool_calls, c_pending, c_seq, c_loop, c_empty, c_streak,
                        c_started_at, c_redact, c_now, h_open, h_starts,
                        gvars, pvars, nvars>>

\* only the commands of successful calls are collected
NewCommandOfSuccess(tc, seen) ==
    tc.docker_cli_args.some /\ tc.docker_cli_args.v.command \notin seen /\ tc.success

\* if tc.docker_cli_args and tc.docker_cli_args.command not in seen
NewCommand(tc, seen) ==
    tc.docker_cli_args.some /\ tc.docker_cli_args.v.command \notin seen

\* the docker commands of the calls, each once, in first-seen order
RECURSIVE DockerCommands(_, _)
DockerCommands(calls, seen) ==
    IF calls = <<>> THEN <<>>
    ELSE LET d == Head(calls).docker_cli_args IN
         IF NewCommand(Head(calls), seen)
         THEN <<d.v.command>> \o DockerCommands(Tail(calls), seen \cup {d.v.command})
         ELSE DockerCommands(Tail(calls), seen)

RECURSIVE SumLatency(_)
SumLatency(calls) ==
    IF calls = <<>> THEN 0 ELSE Head(calls).latency + SumLatency(Tail(calls))

\* _compute_metrics, the token counters left out
_compute_metrics ==
    [total_tool_calls |-> Len(c_tool_calls),
     successful_tool_calls |-> Len(SelectSeq(c_tool_calls, LAMBDA tc : tc.success)),
     failed_tool_calls |-> Len(SelectSeq(c_tool_calls, LAMBDA tc : ~tc.success)),
     total_latency |-> SumLatency(c_tool_calls),
     total_llm_calls |-> Len(c_llm_calls),
     loop_detected |-> c_loop,
     docker_commands_used |-> DockerCommands(c_tool_calls, {})]

\* a detected loop turns the record's success off
SuccessUnlessLoop(success) == success /\ ~c_loop

\* TrajectoryRecord(..., success=success, ...)
RecordSuccess(success) == success

\* finalize, "started_at = self._started_at or completed_at" and the
\* TrajectoryRecord built from the recorder's state
FinalRecord(task, success, completed_at) ==
    [task |-> IF c_redact THEN _redact_string(task) ELSE task,
     tool_calls |-> IF c_redact THEN _redact_tool_calls(c_tool_calls)
                    ELSE c_tool_calls,
     llm_calls |-> c_llm_calls,
     metrics |-> _compute_metrics,
     started_at |-> IF c_started_at.some THEN c_started_at.v ELSE completed_at,
     completed_at |-> completed_at,
     success |-> RecordSuccess(success)]

\* a finalize that hands the recorded calls over and forgets them
finalize_draining(task, success) ==
    /\ c_record' =
           Some(FinalRecord(task, success, c_now))
    /\ c_last' = Event("finalize", "", TRUE)
    /\ c_tool_calls' = <<>>
    /\ UNCHANGED <<c_pending, c_seq, c_loop, c_empty, c_streak,
                   c_started_at, c_redact, c_now, h_open, lvars, h_starts,
                   gvars, pvars, nvars>>

\* finalize(task, success=...)
finalize(task, success) ==
    /\ c_record' =
           Some(FinalRecord(task, success, c_now))
    /\ c_last' = Event("finalize", "", TRUE)
    /\ UNCHANGED <<c_tool_calls, c_pending, c_seq, c_loop, c_empty, c_streak,
                   c_started_at, c_redact, c_now, h_open, lvars, h_starts,
                   gvars, pvars, nvars>>

\* a clear() that forgets the calls recorded and keeps the calls in flight
clear_keeping_pending ==
    /\ c_tool_calls' = <<>>
    /\ c_seq' = 0
    /\ c_loop' = FALSE
    /\ c_empty' = 0
    /\ c_streak' = [tool |-> "", count |-> 0]
    /\ c_started_at' = None
    /\ c_last' = Event("clear", "", TRUE)
    /\ h_open' = {}
    /\ h_starts' = {}
    /\ c_llm_calls' = <<>>
    /\ c_record' = None
    /\ UNCHANGED <<c_pending, c_llm_pending, c_redact, c_now, gvars, pvars, nvars>>

\* clear()
clear ==
    /\ c_tool_calls' = <<>>
    /\ c_pending' = [r \in RunIds |-> NoPending]
    /\ c_seq' = 0
    /\ c_loop' = FALSE
    /\ c_empty' = 0
    /\ c_streak' = [tool |-> "", count |-> 0]
    /\ c_started_at' = None
    /\ c_last' = Event("clear", "", TRUE)
    /\ h_open' = {}
    /\ h_starts' = {}
    /\ c_llm_calls' = <<>>
    /\ c_llm_pending' = [l \in LlmIds |-> NoLlmPending]
    /\ c_record' = None
    /\ UNCHANGED <<c_redact, c_now, gvars, pvars, nvars>>

\* ------------------------------------------------------------------------
\* collector.py called from several threads.  Each thread runs one tool call
\* under the run id the runtime gave it.  A statement that reads or writes
\* a field of the recorder is a step of its own where another thread can come
\* between; what runs inside "with self._lock" excludes the other lock holders.
\* ------------------------------------------------------------------------
RunOf(th) == IF th = "t1" THEN "r1" ELSE "r2"

\* a lock that lets every thread in
collector_lock_open(lock, th) == TRUE

\* self._lock = threading.Lock(): acquired only while no thread holds it
collector_lock_admits(lock, th) == lock.owner = ""

Held(th) == [owner |-> th, depth |-> 1]

\* on_tool_start, "if self._started_at is None": read outside the lock
thread_start_check(th, tool_name, input) ==
    /\ t_pc[th] = "idle" /\ ~t_reg[th].started
    /\ t_reg' = [t_reg EXCEPT ![th] =
                    [NoLocals EXCEPT !.tool = tool_name, !.input = input,
                                     !.stamp = ~c_started_at.some]]
    /\ t_pc' = [t_pc EXCEPT ![th] = "stamp"]
    /\ UNCHANGED <<t_lock, gvars, pvars, xvars, ovars, cvars, fvars, dvars>>

\* on_tool_start, "self._started_at = datetime.now(...)": written outside the
\* lock, then the input is parsed
thread_start_stamp(th) ==
    /\ t_pc[th] = "stamp"
    /\ c_started_at' = IF t_reg[th].stamp THEN Some(c_now) ELSE c_started_at
    /\ t_pc' = [t_pc EXCEPT ![th] = "acquire"]
    /\ UNCHANGED <<c_tool_calls, c_pending, c_seq, c_loop, c_empty, c_streak,
                   c_redact, c_now, c_last, c_record, h_open, lvars, h_starts,
                   t_lock, t_reg, gvars, pvars, xvars, ovars, fvars, dvars>>

\* on_tool_start, "with self._lock:" entered
thread_start_acquire(th) ==
    /\ t_pc[th] = "acquire"
    /\ collector_lock_admits(t_lock, th)
    /\ t_lock' = Held(th)
    /\ t_pc' = [t_pc EXCEPT ![th] = "read"]
    /\ UNCHANGED <<t_reg, gvars, pvars, xvars, ovars, cvars, fvars, dvars>>

\* on_tool_start, "seq = self._sequence_counter"
thread_start_read(th) ==
    /\ t_pc[th] = "read"
    /\ t_reg' = [t_reg EXCEPT ![th].seq = c_seq]
    /\ t_pc' = [t_pc EXCEPT ![th] = "write"]
    /\ UNCHANGED <<t_lock, gvars, pvars, xvars, ovars, cvars, fvars, dvars>>

\* on_tool_start, "self._sequence_counter += 1" and the pending entry, then
\* the lock is left
thread_start_write(th) ==
    /\ t_pc[th] = "write"
    /\ c_seq' = t_reg[th].seq + 1
    /\ LET parsed == _parse_input(t_reg[th].input) IN
       c_pending' =
           [c_pending EXCEPT ![RunOf(th)] =
               [present |-> TRUE, tool |-> t_reg[th].tool,
                input_raw |-> t_reg[th].input.text, input_parsed |-> parsed,
                docker_cli_args |-> IF t_reg[th].tool = "docker_cli"
                                    THEN _expand_docker_cli(parsed) ELSE None,
                start_time |-> c_now, sequence |-> t_reg[th].seq]]
    /\ c_now' = c_now + 1
    /\ c_last' = Event("on_tool_start", RunOf(th), TRUE)
    /\ h_open' = h_open \cup {RunOf(th)}
    /\ h_starts' = h_starts \cup {c_now}
    /\ c_record' = None
    /\ t_lock' = Unlocked
    /\ t_reg' = [t_reg EXCEPT ![th].started = TRUE]
    /\ t_pc' = [t_pc EXCEPT ![th] = "idle"]
    /\ UNCHANGED <<c_tool_calls, c_loop, c_empty, c_streak, c_started_at,
                   c_redact, lvars, gvars, pvars, xvars, ovars, fvars, dvars>>

\* a thread between two callbacks that can enter the lock
CanEnter(th) == t_pc[th] = "idle" /\ collector_lock_admits(t_lock, th)

\* on_tool_end of the call the thread started, delivered once or again: all
\* of it is inside the lock
thread_tool_end(th, output) ==
    CanEnter(th) /\ t_reg[th].started /\ on_tool_end(output, RunOf(th))

\* on_tool_error of the call the thread started, delivered once or again: all
\* of it is inside the lock
thread_tool_error(th, error) ==
    CanEnter(th) /\ t_reg[th].started /\ on_tool_error(error, RunOf(th))

\* time passes between two steps of the threads
clock_passes ==
    /\ c_now < MaxClock
    /\ c_now' = c_now + 1
    /\ UNCHANGED <<c_tool_calls, c_pending, c_seq, c_loop, c_empty, c_streak,
                   c_started_at, c_redact, c_last, c_record, h_open, lvars,
                   h_starts, gvars, pvars, nvars>>

\* finalize, "completed_at = datetime.now(...)": read before the lock is
\* taken
thread_finalize_now(th) ==
    /\ t_pc[th] = "idle"
    /\ t_reg' = [t_reg EXCEPT ![th].completed = c_now]
    /\ t_pc' = [t_pc EXCEPT ![th] = "finalize"]
    /\ UNCHANGED <<t_lock, gvars, pvars, xvars, ovars, cvars, fvars, dvars>>

\* finalize, "with self._lock:": the record is built inside the lock from
\* the completed_at read before it
thread_finalize(th, task) ==
    /\ t_pc[th] = "finalize"
    /\ collector_lock_admits(t_lock, th)
    /\ c_record' = Some(FinalRecord(task, TRUE, t_reg[th].completed))
    /\ c_last' = Event("finalize", "", TRUE)
    /\ t_pc' = [t_pc EXCEPT ![th] = "idle"]
    /\ UNCHANGED <<c_tool_calls, c_pending, c_seq, c_loop, c_empty, c_streak,
                   c_started_at, c_redact, c_now, h_open, lvars, h_starts,
                   t_lock, t_reg, gvars, pvars, xvars, ovars, fvars, dvars>>

\* the tool_calls accessor: list(self._tool_calls), copied inside the lock
thread_tool_calls(th) ==
    /\ CanEnter(th)
    /\ c_record' = Some(c_tool_calls)
    /\ c_last' = Event("tool_calls", "", TRUE)
    /\ UNCHANGED <<c_tool_calls, c_pending, c_seq, c_loop, c_empty, c_streak,
                   c_started_at, c_redact, c_now, h_open, lvars, h_starts,
                   gvars, pvars, nvars>>

\* ------------------------------------------------------------------------
\* docker_trajectory.py: DockerTrajectoryCallback, the recorder the graph
\* runtime installs.  The times of the events are left out.
\* ------------------------------------------------------------------------
\* DockerTrajectoryCallback(max_retries=3)
max_retries == 3

\* Python: str.split()
RECURSIVE Split(_)
Split(text) ==
    LET s == LStrip(text) IN
    IF s = <<>> THEN <<>>
    ELSE LET e == Find(s, 1, {" ", "\n"}) IN
         <<SubSeq(s, 1, e - 1)>> \o Split(SubSeq(s, e, Len(s)))

\* _parse_cli_input: [command, args]; only json.loads is tried
_parse_cli_input(input) ==
    IF input.form = "json"
    THEN LET command == Get(input.pairs, "command")
             args == Get(input.pairs, "args") IN
         [command |-> IF command.some THEN command.v.text ELSE <<>>,
          args |-> IF args.some THEN args.v.text ELSE <<>>]
    ELSE [command |-> <<>>, args |-> input.text]

\* _parse_arg: the part after the first flag that has a part after it
_parse_arg(args, flags) ==
    LET parts == Split(args)
        at == { i \in 1..(Len(parts) - 1) : parts[i] \in flags } IN
    IF at = {} THEN None
    ELSE Some(parts[CHOOSE i \in at : \A j \in at : i <= j])

NameFlags == { <<"-", "-", "n", "a", "m", "e">>, <<"-", "n">> }

ContainerOps ==
    { <<"r", "u", "n">>, <<"s", "t", "a", "r", "t">>, <<"s", "t", "o", "p">>,
      <<"r", "e", "s", "t", "a", "r", "t">> }

\* the commands whose first non-flag argument names the container
NamedFirst ==
    { <<"s", "t", "a", "r", "t">>, <<"s", "t", "o", "p">>,
      <<"r", "e", "s", "t", "a", "r", "t">>, <<"e", "x", "e", "c">>,
      <<"l", "o", "g", "s">>, <<"s", "t", "a", "t", "s">>,
      <<"i", "n", "s", "p", "e", "c", "t">> }

\* the parts that do not start with "-"
Positional(parts) == SelectSeq(parts, LAMBDA part : ~StartsWith(part, <<"-">>))

_extract_container_name(cli) ==
    IF cli.command \in NamedFirst \cup { <<"r", "u", "n">> }
    THEN LET name == _parse_arg(cli.args, NameFlags)
             rest == Positional(Split(cli.args)) IN
         IF name.some THEN name
         ELSE IF cli.command \in NamedFirst /\ rest # <<>> THEN Some(rest[1])
         ELSE None
    ELSE None

_extract_resource_name(cli, resource_type) ==
    IF Contains(cli.command, resource_type)
       /\ Contains(cli.command, <<"c", "r", "e", "a", "t", "e">>)
    THEN LET name == _parse_arg(cli.args, NameFlags)
             rest == Positional(Split(cli.args)) IN
         IF name.some THEN name
         ELSE IF rest # <<>> THEN Some(rest[Len(rest)])
         ELSE None
    ELSE None

DigitChars == { "0", "1", "2", "3", "4", "5", "6", "7", "8", "9" }

\* the host port of the match of -p\s+(\d+): that starts at position i
PortAt(args, i) ==
    LET sp == i + 2
        dg == RunEnd(args, sp, {" ", "\n"})
        colon == RunEnd(args, dg, DigitChars) IN
    IF /\ i + 1 <= Len(args) /\ args[i] = "-" /\ args[i + 1] = "p"
       /\ dg > sp /\ colon > dg /\ colon <= Len(args) /\ args[colon] = ":"
    THEN Some(SubSeq(args, dg, colon - 1))
    ELSE None

\* _extract_port: re.search, the leftmost match
_extract_port(cli) ==
    LET at == { i \in 1..Len(cli.args) : PortAt(cli.args, i).some } IN
    IF cli.command = <<"r", "u", "n">> /\ at # {}
    THEN PortAt(cli.args, CHOOSE i \in at : \A j \in at : i <= j)
    ELSE None

_is_container_op(cli) == cli.command \in ContainerOps

\* a counter dict: a set of [key, count], one per key
CountOf(dict, key) ==
    IF \E e \in dict : e.key = key
    THEN (CHOOSE e \in dict : e.key = key).count
    ELSE 0

\* dict[key] = dict.get(key, 0) + 1
Bumped(dict, key) ==
    { e \in dict : e.key # key } \cup { [key |-> key, count |-> CountOf(dict, key) + 1] }

NoCounts == [container_ops |-> {}, network_create_fails |-> {},
             volume_create_fails |-> {}, port_conflicts |-> {},
             resource_attempts |-> {}]

TextAlreadyExists == <<"a", "l", "r", "e", "a", "d", "y", " ", "e", "x", "i", "s", "t", "s">>

TextConflict == <<"c", "o", "n", "f", "l", "i", "c", "t">>

TextPortAllocated ==
    <<"p", "o", "r", "t", " ", "i", "s", " ", "a", "l", "r", "e", "a", "d", "y", " ",
      "a", "l", "l", "o", "c", "a", "t", "e", "d">>

TextAddressInUse ==
    <<"b", "i", "n", "d", ":", " ", "a", "d", "d", "r", "e", "s", "s", " ",
      "a", "l", "r", "e", "a", "d", "y", " ", "i", "n", " ", "u", "s", "e">>

\* a replan that sets the flag and raises nothing
_trigger_replan_quiet(st, pattern) == [st EXCEPT !.loop = TRUE]

\* _trigger_replan: nothing when the flag is set already, else the flag is set
\* and DockerLoopException raised
_trigger_replan(st, pattern) ==
    IF st.loop THEN st ELSE [st EXCEPT !.loop = TRUE, !.raised = pattern]

\* the counters of one kind, with the count of key raised by one
Counted(st, kind, key) ==
    [st EXCEPT !.counts[kind] = Bumped(st.counts[kind], key)]

\* the state after a count: replan when the count of key passes the limit
Limited(st, kind, key, limit, pattern) ==
    IF CountOf(st.counts[kind], key) >= limit
    THEN _trigger_replan(st, pattern) ELSE st

\* the k-th of the six patterns of _check_docker_loops, applied to the state
\* [counts, history, loop, raised] that the patterns before it left
Pattern(k, cli, output_str, st) ==
    LET conflict == \/ Contains(output_str, TextAlreadyExists)
                    \/ Contains(output_str, TextConflict)
        container_name == _extract_container_name(cli)
        network_name == _extract_resource_name(cli, <<"n", "e", "t", "w", "o", "r", "k">>)
        volume_name == _extract_resource_name(cli, <<"v", "o", "l", "u", "m", "e">>)
        port == _extract_port(cli)
        img_key == Strip(cli.args)
        n == Len(st.history) IN
    CASE k = 1 ->  \* container operations: count > max_retries + 1
             IF _is_container_op(cli) /\ container_name.some
             THEN Limited(Counted(st, "container_ops", container_name.v),
                          "container_ops", container_name.v, max_retries + 2,
                          "container")
             ELSE st
      [] k = 2 ->  \* network create conflicts
             IF network_name.some /\ conflict
             THEN Limited(Counted(st, "network_create_fails", network_name.v),
                          "network_create_fails", network_name.v, max_retries,
                          "network")
             ELSE st
      [] k = 3 ->  \* volume create conflicts
             IF volume_name.some /\ conflict
             THEN Limited(Counted(st, "volume_create_fails", volume_name.v),
                          "volume_create_fails", volume_name.v, max_retries,
                          "volume")
             ELSE st
      [] k = 4 ->  \* port conflicts
             IF /\ port.some
                /\ \/ Contains(output_str, TextPortAllocated)
                   \/ Contains(output_str, TextAddressInUse)
             THEN Limited(Counted(st, "port_conflicts", port.v),
                          "port_conflicts", port.v, max_retries, "port")
             ELSE st
      [] k = 5 ->  \* image pulls: count > max_retries
             IF cli.command = <<"p", "u", "l", "l">>
             THEN Limited(Counted(st, "resource_attempts", img_key),
                          "resource_attempts", img_key, max_retries + 1, "pull")
             ELSE st
      [] OTHER ->  \* identical commands: the last max_retries of the history
             IF /\ n >= max_retries
                /\ \A i \in (n - max_retries + 1)..n : st.history[i] = st.history[n]
             THEN _trigger_replan(st, "identical")
             ELSE st

\* the patterns from the k-th on, each applied to the state its predecessor
\* left; a pattern that raises ends the method
RECURSIVE Patterns(_, _, _, _)
Patterns(k, cli, output_str, st) ==
    IF k > 6 \/ st.raised # "" THEN st
    ELSE CHOOSE after \in { Patterns(k + 1, cli, output_str, s) :
                              s \in { Pattern(k, cli, output_str, st) } } : TRUE

\* _check_docker_loops: the state [counts, history, loop, raised] it leaves,
\* raised naming the pattern that raised DockerLoopException, "" if none did
_check_docker_loops(tool, input, output) ==
    Patterns(1, _parse_cli_input(input), Lower(output),
             [counts |-> d_counts,
              history |-> Append(d_history, <<tool, input.text>>),
              loop |-> d_loop, raised |-> ""])

NoCallbackResult == Returned("none")

CallbackIdle ==
    /\ d_trajectory = <<>> /\ d_loop = FALSE /\ d_history = <<>>
    /\ d_counts = NoCounts /\ d_result = NoCallbackResult

\* DockerTrajectoryCallback.__init__
CallbackInit ==
    /\ d_trajectory = <<>> /\ d_loop = FALSE /\ d_history = <<>>
    /\ d_counts = NoCounts /\ d_result = NoCallbackResult

\* on_tool_start of the callback
callback_tool_started(tool_name, input, r) ==
    /\ d_trajectory' = Append(d_trajectory,
                              [type |-> "tool_start", tool |-> tool_name,
                               input |-> input, status |-> "in_progress",
                               run_id |-> r, output |-> None, error |-> None])
    /\ d_result' = Returned("on_tool_start")
    /\ UNCHANGED <<d_loop, d_history, d_counts, gvars, pvars, xvars, ovars, cvars, fvars, tvars>>

\* on_tool_start of a callback that sees at most MaxEvents tool calls between
\* two calls of clear()
callback_on_tool_start(tool_name, input, r) ==
    Len(d_trajectory) < MaxEvents /\ callback_tool_started(tool_name, input, r)

\* the positions of the events in progress of a run id
InProgress(r) ==
    { i \in 1..Len(d_trajectory) :
        /\ d_trajectory[i].type = "tool_start"
        /\ d_trajectory[i].status = "in_progress"
        /\ d_trajectory[i].run_id = r }

\* for event in reversed(self.trajectory): the latest of them
Latest(S) == CHOOSE i \in S : \A j \in S : j <= i

\* on_tool_end of the callback
callback_on_tool_end(output, r) ==
    IF InProgress(r) = {}
    THEN /\ d_result' = Returned("on_tool_end")
         /\ UNCHANGED <<d_trajectory, d_loop, d_history, d_counts,
                        gvars, pvars, xvars, ovars, cvars, fvars, tvars>>
    ELSE LET i == Latest(InProgress(r))
             event == d_trajectory[i]
             checked == event.tool # "" /\ event.input.text # <<>>
             st == _check_docker_loops(event.tool, event.input, output) IN
         /\ d_trajectory' = [d_trajectory EXCEPT ![i].output = Some(output),
                                                 ![i].status = "success"]
         /\ d_history' = IF checked THEN st.history ELSE d_history
         /\ d_counts' = IF checked THEN st.counts ELSE d_counts
         /\ d_loop' = IF checked THEN st.loop ELSE d_loop
         /\ d_result' = IF checked /\ st.raised # ""
                        THEN Raised("DockerLoopException", st.raised)
                        ELSE Returned("on_tool_end")
         /\ UNCHANGED <<gvars, pvars, xvars, ovars, cvars, fvars, tvars>>

\* on_tool_error of the callback
callback_on_tool_error(error, r) ==
    /\ d_trajectory' =
           IF InProgress(r) = {} THEN d_trajectory
           ELSE [d_trajectory EXCEPT ![Latest(InProgress(r))].error = Some(error),
                                     ![Latest(InProgress(r))].status = "failed"]
    /\ d_result' = Returned("on_tool_error")
    /\ UNCHANGED <<d_loop, d_history, d_counts, gvars, pvars, xvars, ovars, cvars, fvars, tvars>>

\* clear() of the callback
callback_clear ==
    /\ d_trajectory' = <<>>
    /\ d_history' = <<>>
    /\ d_counts' = NoCounts
    /\ d_loop' = FALSE
    /\ d_result' = Returned("clear")
    /\ UNCHANGED <<gvars, pvars, xvars, ovars, cvars, fvars, tvars>>

\* ------------------------------------------------------------------------
\* docker_trajectory.py called from several threads: what happens to
\* self._lock while on_tool_end runs
\* ------------------------------------------------------------------------
\* a lock that its holder cannot take again
callback_lock_plain(lock, th) == lock.owner = ""

\* self._lock = threading.RLock(): acquired while no other thread holds it
callback_lock_admits(lock, th) == lock.owner \in {"", th}

\* the lock after the thread entered "with self._lock"
Entered(lock, th) == [owner |-> th, depth |-> lock.depth + 1]

\* the lock after its holder left "with self._lock", by return or by raise
Left(lock) == IF lock.depth <= 1 THEN Unlocked ELSE [lock EXCEPT !.depth = @ - 1]

CanEnterCallback(th) == t_pc[th] = "idle" /\ callback_lock_admits(t_lock, th)

\* on_tool_start of the callback: the append is inside the lock
locked_on_tool_start(th, tool_name, input) ==
    CanEnterCallback(th) /\ callback_on_tool_start(tool_name, input, RunOf(th))

\* on_tool_end, "with self._lock:" entered
locked_end_enter(th, output) ==
    /\ CanEnterCallback(th)
    /\ t_lock' = Entered(t_lock, th)
    /\ t_reg' = [t_reg EXCEPT ![th] = [NoLocals EXCEPT !.input = output]]
    /\ t_pc' = [t_pc EXCEPT ![th] = "body"]
    /\ UNCHANGED <<gvars, pvars, xvars, ovars, cvars, fvars, dvars>>

\* on_tool_end inside the lock: the event is completed and
\* _check_docker_loops run, up to the raise statement of _trigger_replan
locked_end_body(th) ==
    /\ t_pc[th] = "body"
    /\ IF InProgress(RunOf(th)) = {}
       THEN /\ t_pc' = [t_pc EXCEPT ![th] = "leave"]
            /\ UNCHANGED <<d_trajectory, d_loop, d_history, d_counts, t_reg>>
       ELSE LET i == Latest(InProgress(RunOf(th)))
                event == d_trajectory[i]
                output == t_reg[th].input
                checked == event.tool # "" /\ event.input.text # <<>>
                st == _check_docker_loops(event.tool, event.input, output) IN
            /\ d_trajectory' = [d_trajectory EXCEPT ![i].output = Some(output),
                                                    ![i].status = "success"]
            /\ d_history' = IF checked THEN st.history ELSE d_history
            /\ d_counts' = IF checked THEN st.counts ELSE d_counts
            /\ d_loop' = IF checked THEN st.loop ELSE d_loop
            /\ t_reg' = [t_reg EXCEPT ![th].result =
                            IF checked THEN st.raised ELSE ""]
            /\ t_pc' = [t_pc EXCEPT ![th] =
                           IF checked /\ st.raised # "" THEN "replan" ELSE "leave"]
    /\ UNCHANGED <<d_result, t_lock, gvars, pvars, xvars, ovars, cvars, fvars>>

\* _trigger_replan, "trajectory": self.get_trajectory(): its "with self._lock"
\* entered by the thread that holds the lock for on_tool_end
locked_replan_enter(th) ==
    /\ t_pc[th] = "replan"
    /\ callback_lock_admits(t_lock, th)
    /\ t_lock' = Entered(t_lock, th)
    /\ t_pc' = [t_pc EXCEPT ![th] = "copy"]
    /\ UNCHANGED <<t_reg, gvars, pvars, xvars, ovars, cvars, fvars, dvars>>

\* get_trajectory returns list(self.trajectory) and leaves its "with"
locked_replan_copy(th) ==
    /\ t_pc[th] = "copy"
    /\ t_lock' = Left(t_lock)
    /\ t_pc' = [t_pc EXCEPT ![th] = "raise"]
    /\ UNCHANGED <<t_reg, gvars, pvars, xvars, ovars, cvars, fvars, dvars>>

\* raise DockerLoopException(...): the exception leaves "with self._lock" of
\* on_tool_end
locked_end_raise(th) ==
    /\ t_pc[th] = "raise"
    /\ t_lock' = Left(t_lock)
    /\ d_result' = Raised("DockerLoopException", t_reg[th].result)
    /\ t_pc' = [t_pc EXCEPT ![th] = "idle"]
    /\ UNCHANGED <<d_trajectory, d_loop, d_history, d_counts, t_reg,
                   gvars, pvars, xvars, ovars, cvars, fvars>>

\* on_tool_end returns
locked_end_leave(th) ==
    /\ t_pc[th] = "leave"
    /\ t_lock' = Left(t_lock)
    /\ d_result' = Returned("on_tool_end")
    /\ t_pc' = [t_pc EXCEPT ![th] = "idle"]
    /\ UNCHANGED <<d_trajectory, d_loop, d_history, d_counts, t_reg,
                   gvars, pvars, xvars, ovars, cvars, fvars>>

\* get_trajectory() called from outside
locked_get_trajectory(th) ==
    /\ CanEnterCallback(th)
    /\ d_result' = Returned("get_trajectory")
    /\ UNCHANGED <<d_trajectory, d_loop, d_history, d_counts,
                   gvars, pvars, xvars, ovars, cvars, fvars, tvars>>

\* clear() of the callback: all of it is inside the lock
locked_clear(th) == CanEnterCallback(th) /\ callback_clear

\* the steps of a thread that is inside on_tool_end
locked_end_continue(th) ==
    \/ locked_end_body(th)
    \/ locked_replan_enter(th)
    \/ locked_replan_copy(th)
    \/ locked_end_raise(th)
    \/ locked_end_leave(th)

\* ------------------------------------------------------------------------
\* Specifications
\* ------------------------------------------------------------------------
GatewayNext ==
    \/ RunDockerCli
    \/ RunSafeDockerCli
    \/ DockerBash
    \/ ComposeUp
    \/ ComposeDown
    \/ RemoveContainer

InitGateway == GatewayInit /\ PathIdle /\ CollectorIdle /\ FunctionsIdle /\ CallbackIdle
    /\ ThreadsIdle /\ ExecutorIdle /\ RuntimeIdle /\ CliIdle

SpecGateway == InitGateway /\ [][GatewayNext]_vars

InitPaths == PathInit /\ GatewayIdle /\ CollectorIdle /\ FunctionsIdle /\ CallbackIdle
    /\ ThreadsIdle /\ ExecutorIdle /\ RuntimeIdle /\ CliIdle

SpecPaths == InitPaths /\ [][ResolveWorkspacePath]_vars

CollectorNext ==
    \/ \E s \in ToolStarts, r \in RunIds : on_tool_start(s.tool, s.input, r)
    \/ \E o \in Outputs, r \in RunIds : on_tool_end(o, r)
    \/ \E e \in ErrorTexts, r \in RunIds : on_tool_error(e, r)
    \/ \E t \in Tasks : finalize(t, TRUE)
    \/ clear

\* One recorder used for several turns, with its LLM callbacks: one tool and
\* one LLM run id, calls that do not overlap
SessionStarts ==
    { [tool |-> "docker_cli",
       input |-> JsonInput(<< <<"command", StrValue(<<"p", "s">>)>> >>)] }

SessionOutputs == { Some(<<"o", "k">>), Some(<<>>) }

SessionNext ==
    \/ \E s \in SessionStarts : on_tool_start(s.tool, s.input, "r1")
    \/ \E o \in SessionOutputs : on_tool_end(o, "r1")
    \/ \E e \in ErrorTexts : on_tool_error(e, "r1")
    \/ \E l \in LlmIds : on_llm_start("gpt", l)
    \/ \E l \in LlmIds : on_llm_end(l)
    \/ \E t \in Tasks : finalize(t, TRUE)
    \/ clear

\* One turn of the agent: the tool calls run one after the other under one
\* run id, with inputs of every form _expand_docker_cli tells apart
TextAuth == <<"a", "u", "t", "h", "=", "a", "b", "c">>

TurnStarts ==
    { [tool |-> "docker_cli",
       input |-> JsonInput(<< <<"command", StrValue(<<"p", "s">>)>> >>)],
      [tool |-> "docker_cli",
       input |-> LiteralInput(<< <<"command", StrValue(<<"r", "u", "n">>)>>,
                                 <<"args", StrValue(TextAuth)>> >>)],
      [tool |-> "docker_cli", input |-> JsonInput(<< <<"command", NullValue>> >>)],
      [tool |-> "docker_cli", input |-> TextInput(<<"p", "s">>)],
      [tool |-> "list_files",
       input |-> JsonInput(<< <<"command", StrValue(<<"p", "s">>)>> >>)] }

TurnOutputs ==
    { Some(<<"o", "k">>), Some(<<"E", "r", "r", "o", "r", ":", " ">> \o TextAuth) }

TurnNext ==
    \/ \E s \in TurnStarts : h_open = {} /\ on_tool_start(s.tool, s.input, "r1")
    \/ \E o \in TurnOutputs : on_tool_end(o, "r1")
    \/ \E e \in ErrorTexts : on_tool_error(e, "r1")
    \/ \E t \in Tasks, success \in BOOLEAN : finalize(t, success)

\* One turn whose tool inputs carry a credential: in a text, in a list and in
\* a mapping inside the input
SecretStarts ==
    { [tool |-> "docker_cli",
       input |-> LiteralInput(<< <<"command", StrValue(<<"r", "u", "n">>)>>,
                                 <<"args", StrValue(TextAuth)>> >>)],
      [tool |-> "list_files",
       input |-> JsonInput(<< <<"env", ListValue(<<StrValue(TextAuth)>>)>> >>)],
      [tool |-> "list_files",
       input |-> LiteralInput(
           << <<"env", DictValue(<< <<"args", StrValue(TextAuth)>> >>)>> >>)] }

SecretsNext ==
    \/ \E s \in SecretStarts : h_open = {} /\ on_tool_start(s.tool, s.input, "r1")
    \/ \E o \in TurnOutputs : on_tool_end(o, "r1")
    \/ \E e \in ErrorTexts : on_tool_error(e, "r1")
    \/ \E t \in Tasks : finalize(t, TRUE)

InitCollector == CollectorInit /\ GatewayIdle /\ PathIdle /\ FunctionsIdle /\ CallbackIdle
    /\ ThreadsIdle /\ ExecutorIdle /\ RuntimeIdle /\ CliIdle

SpecCollector == InitCollector /\ [][CollectorNext]_vars

\* One call of _redact_string: the text is made of at most MaxPieces pieces
RedactPieces ==
    { <<"a", "u", "t", "h">>, <<"=">>, <<":">>, <<" ">>, <<"a", "b", "c">>,
      Redacted, <<"x">>, <<",">>, <<"]">> }

RECURSIVE Flatten(_)
Flatten(pieces) ==
    IF pieces = <<>> THEN <<>> ELSE pieces[1] \o Flatten(Tail(pieces))

RedactTexts == { Flatten(q) : q \in SeqsUpTo(RedactPieces, MaxPieces) }

RedactInit ==
    /\ f_pc = "call"
    /\ f_in \in { Some(t) : t \in RedactTexts }
    /\ f_out = None

RedactCalled ==
    /\ f_pc = "call"
    /\ f_out' = Some(_redact_string(f_in.v))
    /\ f_pc' = "done"
    /\ UNCHANGED <<f_in, gvars, pvars, xvars, ovars, cvars, dvars, tvars>>

RedactNext == RedactCalled

InitRedact == RedactInit /\ GatewayIdle /\ PathIdle /\ CollectorIdle /\ CallbackIdle
    /\ ThreadsIdle /\ ExecutorIdle /\ RuntimeIdle /\ CliIdle

SpecRedact == InitRedact /\ [][RedactNext]_vars

\* The tool calls of the graph runtime, as its callback sees them, one after
\* the other
CallbackStarts ==
    { [tool |-> "docker_cli",
       input |-> LiteralInput(<< <<"command", StrValue(<<"p", "s">>)>> >>)],
      [tool |-> "docker_cli",
       input |-> JsonInput(<< <<"command", StrValue(<<"p", "u", "l", "l">>)>>,
                              <<"args", StrValue(<<"a">>)>> >>)],
      [tool |-> "docker_cli",
       input |-> JsonInput(
           << <<"command", StrValue(<<"n", "e", "t", "w", "o", "r", "k", " ",
                                      "c", "r", "e", "a", "t", "e">>)>>,
              <<"args", StrValue(<<"n">>)>> >>)],
      [tool |-> "docker_cli",
       input |-> JsonInput(
           << <<"command", StrValue(<<"r", "u", "n">>)>>,
              <<"args", StrValue(<<"-", "-", "n", "a", "m", "e", " ", "c", " ",
                                   "-", "p", " ", "8", ":", "8">>)>> >>)],
      [tool |-> "docker_cli",
       input |-> JsonInput(
           << <<"command", StrValue(<<"r", "u", "n">>)>>,
              <<"args", StrValue(<<"-", "p", " ", "8", ":", "8">>)>> >>)],
      [tool |-> "docker_cli",
       input |-> JsonInput(
           << <<"command", StrValue(<<"r", "u", "n">>)>>,
              <<"args", StrValue(<<"-", "p", " ", "8", ":", "9">>)>> >>)] }

CallbackOutputs ==
    { <<"o", "k">>, TextConflict \o <<":", " ">> \o TextPortAllocated }

CallbackNext ==
    \/ \E s \in CallbackStarts :
           InProgress("r1") = {} /\ callback_on_tool_start(s.tool, s.input, "r1")
    \/ \E o \in CallbackOutputs : callback_on_tool_end(o, "r1")
    \/ \E e \in ErrorTexts : callback_on_tool_error(e, "r1")
    \/ callback_clear

InitCallback ==
    CallbackInit /\ GatewayIdle /\ PathIdle /\ CollectorIdle /\ FunctionsIdle
    /\ ThreadsIdle /\ ExecutorIdle /\ RuntimeIdle /\ CliIdle

SpecCallback == InitCallback /\ [][CallbackNext]_vars

\* The outputs of one tool call after the other, of every class that
\* on_tool_end tells apart
ClassOutputs ==
    { None,
      Some(<<>>),
      Some(<<" ">>),
      Some(<<"n", "o", "n", "e">>),
      Some(<<" ", "n", "u", "l", "l", "\n">>),
      Some(<<"[", "]">>),
      Some(<<"{", "}">>),
      Some(<<"N", "o", "n", "e">>),
      Some(<<"o", "k">>),
      Some(<<"E", "r", "r", "o", "r", ":", " ", "x">>),
      Some(<<"e", "r", "r", "o", "r", " ", "(", "e", "x", "i", "t", " ", "1", ")">>),
      Some(<<"F", "A", "I", "L", "E", "D">>),
      Some(<<"a", " ", "t", "i", "m", "e", "o", "u", "t">>),
      Some(<<"{", "\"", "s", "u", "c", "c", "e", "s", "s", "\"", ":", " ", "f", "a", "l", "s", "e", "}">>),
      Some(<<"{", "'", "s", "u", "c", "c", "e", "s", "s", "'", ":", " ", "f", "a", "l", "s", "e", "}">>),
      Some(<<"e", "r", "r", "o", "r", "s">>) }

ClassifyNext ==
    \/ \E s \in SessionStarts : h_open = {} /\ on_tool_start(s.tool, s.input, "r1")
    \/ \E o \in ClassOutputs : on_tool_end(o, "r1")
    \/ \E e \in ErrorTexts : on_tool_error(e, "r1")

InitClassify ==
    CollectorInit /\ GatewayIdle /\ PathIdle /\ FunctionsIdle /\ CallbackIdle
    /\ ThreadsIdle /\ ExecutorIdle /\ RuntimeIdle /\ CliIdle

SpecClassify == InitClassify /\ [][ClassifyNext]_vars

InitSecrets == CollectorInit /\ GatewayIdle /\ PathIdle /\ FunctionsIdle /\ CallbackIdle
    /\ ThreadsIdle /\ ExecutorIdle /\ RuntimeIdle /\ CliIdle

SpecSecrets == InitSecrets /\ [][SecretsNext]_vars

InitTurn == CollectorInit /\ GatewayIdle /\ PathIdle /\ FunctionsIdle /\ CallbackIdle
    /\ ThreadsIdle /\ ExecutorIdle /\ RuntimeIdle /\ CliIdle

SpecTurn == InitTurn /\ [][TurnNext]_vars

\* One recorder shared by the threads of Threads
ThreadStarts ==
    { [tool |-> "docker_cli",
       input |-> JsonInput(<< <<"command", StrValue(<<"p", "s">>)>> >>)] }

ThreadOutputs == { Some(<<"o", "k">>), Some(<<>>) }

ThreadsNext ==
    \/ clock_passes
    \/ \E th \in Threads :
        \/ \E s \in ThreadStarts : thread_start_check(th, s.tool, s.input)
        \/ thread_start_stamp(th)
        \/ thread_start_acquire(th)
        \/ thread_start_read(th)
        \/ thread_start_write(th)
        \/ \E o \in ThreadOutputs : thread_tool_end(th, o)
        \/ \E e \in ErrorTexts : thread_tool_error(th, e)
        \/ thread_finalize_now(th)
        \/ \E t \in Tasks : thread_finalize(th, t)
        \/ thread_tool_calls(th)

InitThreads ==
    CollectorInit /\ GatewayIdle /\ PathIdle /\ FunctionsIdle /\ CallbackIdle
    /\ ThreadsIdle /\ ExecutorIdle /\ RuntimeIdle /\ CliIdle

SpecThreads == InitThreads /\ [][ThreadsNext]_vars

\* One runtime callback shared by the threads of Threads
ReentryStarts ==
    { [tool |-> "docker_cli",
       input |-> LiteralInput(<< <<"command", StrValue(<<"p", "s">>)>> >>)] }

ReentryOutputs == { <<"o", "k">> }

ReentryNext ==
    \E th \in Threads :
        \/ \E s \in ReentryStarts : locked_on_tool_start(th, s.tool, s.input)
        \/ \E o \in ReentryOutputs : locked_end_enter(th, o)
        \/ locked_end_body(th)
        \/ locked_replan_enter(th)
        \/ locked_replan_copy(th)
        \/ locked_end_raise(th)
        \/ locked_end_leave(th)
        \/ locked_get_trajectory(th)
        \/ locked_clear(th)

InitReentry ==
    CallbackInit /\ GatewayIdle /\ PathIdle /\ CollectorIdle /\ FunctionsIdle
    /\ ThreadsIdle /\ ExecutorIdle /\ RuntimeIdle /\ CliIdle

SpecReentry == InitReentry /\ [][ReentryNext]_vars

\* a thread that is inside a callback keeps running
SpecReentryFair ==
    SpecReentry /\ \A th \in Threads : WF_vars(locked_end_continue(th))

\* One call of _truncate_text, and a second one on its result: texts of at
\* most MaxText characters, budgets up to MaxBudget
TextChars == {"a", "b"}

RECURSIVE TextsUpTo(_)
TextsUpTo(n) ==
    IF n = 0 THEN { <<>> }
    ELSE TextsUpTo(n - 1)
           \cup { Append(t, c) : t \in { u \in TextsUpTo(n - 1) : Len(u) = n - 1 },
                                 c \in TextChars }

TruncateInit ==
    /\ f_pc = "call"
    /\ f_in \in { Some([value |-> t, max_chars |-> m]) :
                    t \in TextsUpTo(MaxText), m \in 0..MaxBudget }
    /\ f_out = None

TruncateCalled ==
    /\ f_pc = "call"
    /\ f_out' = Some(_truncate_text(f_in.v.value, f_in.v.max_chars))
    /\ f_pc' = "done"
    /\ UNCHANGED <<f_in, gvars, pvars, xvars, ovars, cvars, dvars, tvars>>

TruncateAgain ==
    /\ f_pc = "done"
    /\ f_out' = Some(_truncate_text(f_out.v, f_in.v.max_chars))
    /\ f_pc' = "again"
    /\ UNCHANGED <<f_in, gvars, pvars, xvars, ovars, cvars, dvars, tvars>>

TruncateNext == TruncateCalled \/ TruncateAgain

InitTruncate ==
    TruncateInit /\ GatewayIdle /\ PathIdle /\ CollectorIdle /\ CallbackIdle
    /\ ThreadsIdle /\ ExecutorIdle /\ RuntimeIdle /\ CliIdle

SpecTruncate == InitTruncate /\ [][TruncateNext]_vars

\* One call of _json on a payload of one or two strings
JsonPayloads ==
    { << <<(<<"l", "o", "g", "s">>), t>> >> : t \in TextsUpTo(MaxText) }
    \cup
    { << <<(<<"l", "o", "g", "s">>), t>>, <<(<<"k">>), u>> >> :
        t \in TextsUpTo(MaxText), u \in TextsUpTo(2) }

JsonInit ==
    /\ f_pc = "call"
    /\ f_in \in { Some(d) : d \in JsonPayloads }
    /\ f_out = None

JsonCalled ==
    /\ f_pc = "call"
    /\ f_out' = Some(_json(f_in.v))
    /\ f_pc' = "done"
    /\ UNCHANGED <<f_in, gvars, pvars, xvars, ovars, cvars, dvars, tvars>>

JsonNext == JsonCalled

InitJson ==
    JsonInit /\ GatewayIdle /\ PathIdle /\ CollectorIdle /\ CallbackIdle
    /\ ThreadsIdle /\ ExecutorIdle /\ RuntimeIdle /\ CliIdle

SpecJson == InitJson /\ [][JsonNext]_vars

InitSession == CollectorInit /\ GatewayIdle /\ PathIdle /\ FunctionsIdle /\ CallbackIdle
    /\ ThreadsIdle /\ ExecutorIdle /\ RuntimeIdle /\ CliIdle

SpecSession == InitSession /\ [][SessionNext]_vars

\* ------------------------------------------------------------------------
\* executor.py: CodeExecutor
\* ------------------------------------------------------------------------
\* CodeExecutor(timeout_seconds=1), as the tests of the timeout construct it
timeout_seconds == 1

max_output_chars == 8000

ModJson == <<"j", "s", "o", "n">>

ModRe == <<"r", "e">>

ModTime == <<"t", "i", "m", "e">>

ModTextwrap == <<"t", "e", "x", "t", "w", "r", "a", "p">>

ModItertools == <<"i", "t", "e", "r", "t", "o", "o", "l", "s">>

ModFunctools == <<"f", "u", "n", "c", "t", "o", "o", "l", "s">>

ModCollections == <<"c", "o", "l", "l", "e", "c", "t", "i", "o", "n", "s">>

ModOs == <<"o", "s">>

ModSubprocess == <<"s", "u", "b", "p", "r", "o", "c", "e", "s", "s">>

_ALLOWED_MODULES ==
    { ModJson, ModRe, ModTime, ModTextwrap, ModItertools, ModFunctools,
      ModCollections }

\* sorted(_ALLOWED_MODULES)
SortedAllowedModules ==
    <<ModCollections, ModFunctools, ModItertools, ModJson, ModRe, ModTextwrap,
      ModTime>>

\* ', '.join(names)
RECURSIVE CommaJoin(_)
CommaJoin(names) ==
    IF names = <<>> THEN <<>>
    ELSE IF Len(names) = 1 THEN names[1]
    ELSE names[1] \o <<",", " ">> \o CommaJoin(Tail(names))

\* f"Module '{name}' is not allowed. Allowed: {', '.join(sorted(_ALLOWED_MODULES))}"
NotAllowedMessage(name) ==
    <<"M", "o", "d", "u", "l", "e", " ", "'">>
        \o name
        \o <<"'", " ", "i", "s", " ", "n", "o", "t", " ", "a", "l", "l", "o",
          "w", "e", "d", ".", " ", "A", "l", "l", "o", "w", "e", "d", ":",
          " ">>
        \o CommaJoin(SortedAllowedModules)

\* a sandbox in which every module can be imported
_safe_import_any(name) == Returned(name)

\* _safe_import(name): the module, or ImportError
_safe_import(name) ==
    IF name \notin _ALLOWED_MODULES
    THEN Raised("ImportError", NotAllowedMessage(name))
    ELSE Returned(name)

\* ValueError('test error'), raised by the program
TestError == Raised("ValueError", <<"t", "e", "s", "t", " ", "e", "r", "r", "o", "r">>)

\* ExecutionTimeout(f"Execution exceeded {self._timeout}s")
ExecutionTimeout ==
    Raised("ExecutionTimeout",
           <<"E", "x", "e", "c", "u", "t", "i", "o", "n", " ", "e", "x", "c",
          "e", "e", "d", "e", "d", " ">> \o Decimal(timeout_seconds) \o <<"s">>)

\* type(exc).__name__
ExceptionName(exc) ==
    CASE exc.exc = "ImportError" -> <<"I", "m", "p", "o", "r", "t", "E", "r", "r", "o", "r">>
      [] exc.exc = "ValueError" -> <<"V", "a", "l", "u", "e", "E", "r", "r", "o", "r">>
      [] OTHER -> <<"E", "x", "e", "c", "u", "t", "i", "o", "n", "T", "i", "m", "e",
          "o", "u", "t">>

\* traceback.format_exc(): the header, the frame of the program (the frames
\* of executor.py name files of the installation and are left out) and the
\* line of the exception
format_exc(exc) ==
    <<"T", "r", "a", "c", "e", "b", "a", "c", "k", " ", "(", "m", "o",
          "s", "t", " ", "r", "e", "c", "e", "n", "t", " ", "c", "a", "l",
          "l", " ", "l", "a", "s", "t", ")", ":", "\n">>
        \o <<" ", " ", "F", "i", "l", "e", " ", "\"", "<", "p", "r", "o", "g",
          "r", "a", "m", "m", "a", "t", "i", "c", "_", "t", "o", "o", "l",
          "s", ">", "\"", ",", " ", "l", "i", "n", "e", " ", "1", ",", " ",
          "i", "n", " ", "<", "m", "o", "d", "u", "l", "e", ">", "\n">>
        \o ExceptionName(exc) \o <<":", " ">> \o exc.v \o <<"\n">>

\* f"\n[TIMEOUT] Code execution exceeded {self._timeout}s limit\n"
TimeoutLine ==
    <<"\n", "[", "T", "I", "M", "E", "O", "U", "T", "]", " ", "C", "o",
          "d", "e", " ", "e", "x", "e", "c", "u", "t", "i", "o", "n", " ",
          "e", "x", "c", "e", "e", "d", "e", "d", " ">>
        \o Decimal(timeout_seconds) \o <<"s", " ", "l", "i", "m", "i", "t", "\n">>

ErrorTag == <<"[", "E", "R", "R", "O", "R", "]">>

\* f"\n[ERROR]\n{tb}\n"
ErrorBlock(exc) == <<"\n">> \o ErrorTag \o <<"\n">> \o format_exc(exc) \o <<"\n">>

NoOutputText == <<"[", "N", "o", " ", "o", "u", "t", "p", "u", "t", " ", "-", " ",
          "u", "s", "e", " ", "p", "r", "i", "n", "t", "(", ")", " ", "t",
          "o", " ", "s", "e", "e", " ", "r", "e", "s", "u", "l", "t", "s",
          "]">>

\* "\n... [TRUNCATED {omitted} chars] ...\n"
OutputMarker(omitted) ==
    <<"\n", ".", ".", ".", " ", "[", "T", "R", "U", "N", "C", "A", "T",
          "E", "D", " ">>
        \o Decimal(omitted) \o <<" ", "c", "h", "a", "r", "s", "]", " ", ".", ".", ".", "\n">>

\* the statements of a program: import <name>, print('ok') and
\* print(docker_cli(command='ps')), docker_cli an injected tool function
\* that returns 'up'
Import(name) == [op |-> "import", arg |-> name]

PrintOk == [op |-> "print", arg |-> <<"o", "k">>]

ModuleNames == _ALLOWED_MODULES \cup { ModOs, ModSubprocess }

PrintTool == [op |-> "tool", arg |-> <<"u", "p">>]

Statements == { Import(name) : name \in ModuleNames } \cup { PrintOk, PrintTool }

\* how a program goes on after its statements: it ends, it raises
\* ValueError('test error'), it runs 'while True: pass', or it runs
\* 'while True:' with 'try: pass' and 'except Exception: pass' in the loop
Tails == { "end", "raise", "spin", "spin_catch" }

RECURSIVE StatementsUpTo(_)
StatementsUpTo(n) ==
    IF n = 0 THEN { <<>> }
    ELSE StatementsUpTo(n - 1)
         \cup { Append(h, st) : h \in StatementsUpTo(n - 1), st \in Statements }

Programs == [head : StatementsUpTo(MaxStatements), tail : Tails]

\* the position of 'while True:' and of the body of the loop
LoopTop == Len(x_prog.v.head) + 1

LoopBody == Len(x_prog.v.head) + 2

\* the program stands inside 'try:'
InTry == x_prog.v.tail = "spin_catch" /\ x_at = LoopBody

\* execute, from the except clauses to the return: what the buffer holds
\* and what is returned when exc left the program (None: nothing did)
Outcome(buffer, exc) ==
    LET written ==
            IF exc = None THEN buffer
            ELSE IF exc.v.exc = "ExecutionTimeout" THEN buffer \o TimeoutLine
            ELSE buffer \o ErrorBlock(exc.v)
        half == max_output_chars \div 2
        omitted == Len(written) - max_output_chars
        result ==
            IF Len(written) > max_output_chars
            THEN Prefix(written, half) \o OutputMarker(omitted)
                     \o Suffix(written, half)
            ELSE written
    IN [buffer |-> written,
        result |-> IF result = <<>> THEN NoOutputText ELSE result]

ExecuteReturns(exc) ==
    LET o == Outcome(x_buffer, exc) IN
    /\ x_buffer' = o.buffer
    /\ x_result' = Some(o.result)
    /\ x_pc' = "returned"

\* execute, up to the call of exec: on the main thread of a host with
\* signals the alarm is set and exec runs in the caller, elsewhere a worker
\* thread is started and the caller joins it
execute_enter ==
    /\ x_pc = "call"
    /\ x_run' = "running" /\ x_at' = 1
    /\ IF x_main THEN x_pc' = "exec" /\ x_alarm' = "armed"
       ELSE x_pc' = "join" /\ x_alarm' = x_alarm
    /\ UNCHANGED <<x_main, x_prog, x_clock, x_buffer, x_exc, x_result, x_calls,
                   gvars, pvars, cvars, fvars, dvars, tvars, ovars>>

\* a second passes while the caller is inside exec or join
clock_tick ==
    /\ x_pc \in {"exec", "join"}
    /\ x_clock < timeout_seconds
    /\ x_clock' = x_clock + 1
    /\ UNCHANGED <<x_pc, x_main, x_prog, x_at, x_run, x_alarm, x_buffer, x_exc,
                   x_result, x_calls, gvars, pvars, cvars, fvars, dvars, tvars, ovars>>

\* exec(compiled, namespace): the interpreter runs one statement of the
\* program, in the caller or in the worker thread, which nothing stops
program_step ==
    /\ x_run = "running"
    /\ IF x_at < LoopTop
       THEN LET st == x_prog.v.head[x_at]
                module == _safe_import(st.arg) IN
            IF st.op \in {"print", "tool"}
            THEN /\ x_buffer' = x_buffer \o st.arg \o <<"\n">>
                 /\ x_at' = x_at + 1
                 /\ UNCHANGED <<x_run, x_exc>>
            ELSE IF module.raised
            THEN /\ x_run' = "raised" /\ x_exc' = Some(module)
                 /\ UNCHANGED <<x_at, x_buffer>>
            ELSE /\ x_at' = x_at + 1
                 /\ UNCHANGED <<x_run, x_exc, x_buffer>>
       ELSE IF x_at = LoopTop
       THEN CASE x_prog.v.tail = "end" ->
                     /\ x_run' = "finished"
                     /\ UNCHANGED <<x_at, x_exc, x_buffer>>
              [] x_prog.v.tail = "raise" ->
                     /\ x_run' = "raised" /\ x_exc' = Some(TestError)
                     /\ UNCHANGED <<x_at, x_buffer>>
              [] OTHER ->
                     /\ x_at' = LoopBody
                     /\ UNCHANGED <<x_run, x_exc, x_buffer>>
       ELSE /\ x_at' = LoopTop
            /\ UNCHANGED <<x_run, x_exc, x_buffer>>
    /\ x_calls' = IF x_at < LoopTop /\ x_prog.v.head[x_at].op = "tool"
                  THEN x_calls + 1 ELSE x_calls
    /\ UNCHANGED <<x_pc, x_main, x_prog, x_alarm, x_clock, x_result,
                   gvars, pvars, cvars, fvars, dvars, tvars, ovars>>

\* _handler: SIGALRM arrives once, timeout_seconds after signal.alarm, and
\* raises ExecutionTimeout where the main thread stands: inside 'try:' the
\* program's 'except Exception' catches it and the loop goes on
alarm_fires ==
    /\ x_pc = "exec" /\ x_alarm = "armed"
    /\ x_clock = timeout_seconds
    /\ x_alarm' = "fired"
    /\ IF x_run = "running" /\ InTry
       THEN x_at' = LoopTop /\ UNCHANGED <<x_run, x_exc>>
       ELSE x_run' = "raised" /\ x_exc' = Some(ExecutionTimeout)
            /\ UNCHANGED x_at
    /\ UNCHANGED <<x_pc, x_main, x_prog, x_clock, x_buffer, x_result, x_calls,
                   gvars, pvars, cvars, fvars, dvars, tvars, ovars>>

\* _exec_with_signal_timeout returns or raises: signal.alarm(0), then the
\* rest of execute
signal_exec_leaves ==
    /\ x_pc = "exec" /\ x_run \in {"finished", "raised"}
    /\ x_alarm' = "off"
    /\ ExecuteReturns(x_exc)
    /\ UNCHANGED <<x_main, x_prog, x_at, x_run, x_clock, x_exc, x_calls,
                   gvars, pvars, cvars, fvars, dvars, tvars, ovars>>

\* t.join(timeout=self._timeout) returns: the worker ended or the time is up
join_returns ==
    /\ x_pc = "join"
    /\ x_run # "running" \/ x_clock = timeout_seconds
    /\ x_pc' = "alive"
    /\ UNCHANGED <<x_main, x_prog, x_at, x_run, x_alarm, x_clock, x_buffer,
                   x_exc, x_result, x_calls, gvars, pvars, cvars, fvars, dvars, tvars, ovars>>

\* a caller that does not look whether the worker is alive
alive_unchecked ==
    /\ x_pc = "alive"
    /\ ExecuteReturns(x_exc)
    /\ UNCHANGED <<x_main, x_prog, x_at, x_run, x_alarm, x_clock, x_exc, x_calls,
                   gvars, pvars, cvars, fvars, dvars, tvars, ovars>>

\* _exec_with_thread_timeout after the join: ExecutionTimeout if the worker
\* is alive, else the exception the worker held, then the rest of execute
alive_checked ==
    /\ x_pc = "alive"
    /\ ExecuteReturns(IF x_run = "running" THEN Some(ExecutionTimeout) ELSE x_exc)
    /\ UNCHANGED <<x_main, x_prog, x_at, x_run, x_alarm, x_clock, x_exc, x_calls,
                   gvars, pvars, cvars, fvars, dvars, tvars, ovars>>

ExecutorInit ==
    /\ x_pc = "call" /\ x_main \in BOOLEAN
    /\ x_prog \in { Some(p) : p \in Programs }
    /\ x_at = 0 /\ x_run = "none" /\ x_alarm = "off" /\ x_clock = 0
    /\ x_buffer = <<>> /\ x_exc = None /\ x_result = None /\ x_calls = 0

ExecutorNext ==
    \/ execute_enter
    \/ clock_tick
    \/ program_step
    \/ alarm_fires
    \/ signal_exec_leaves
    \/ join_returns
    \/ alive_checked

InitExecutor ==
    ExecutorInit /\ GatewayIdle /\ PathIdle /\ CollectorIdle /\ FunctionsIdle
    /\ CallbackIdle /\ ThreadsIdle /\ RuntimeIdle /\ CliIdle

SpecExecutor == InitExecutor /\ [][ExecutorNext]_vars

\* the host delivers the alarm, the clock and both threads run
SpecExecutorFair ==
    /\ SpecExecutor
    /\ WF_vars(execute_enter) /\ WF_vars(clock_tick) /\ WF_vars(program_step)
    /\ WF_vars(alarm_fires) /\ WF_vars(signal_exec_leaves)
    /\ WF_vars(join_returns) /\ WF_vars(alive_checked)

\* ------------------------------------------------------------------------
\* One call of _extract_command_key on a compose argument list
\* ------------------------------------------------------------------------
\* tokens after 'compose': the global flags that take a value, two that the
\* function takes for plain flags, a file name and two subcommands
ComposeTokens ==
    { <<"-", "f">>, <<"-", "-", "file">>, <<"-", "p">>,
      <<"-", "-", "project-name">>, <<"-", "-", "profile">>,
      <<"-", "d">>, <<"-", "-", "env-file">>, <<"x.yml">>, <<"up">>, <<"ps">> }

RECURSIVE TokensUpTo(_)
TokensUpTo(n) ==
    IF n = 0 THEN { <<>> }
    ELSE TokensUpTo(n - 1)
         \cup { Append(a, t) : a \in TokensUpTo(n - 1), t \in ComposeTokens }

\* the argument list of test_extract_command_key_supports_compose_global_flags
ComposeTestArgs ==
    << <<"compose">>, <<"-", "f">>, <<"/", "tmp", "/", "docker-compose.yml">>,
       <<"-", "p">>, <<"demo">>, <<"ps">> >>

ComposeArgLists ==
    { << <<"compose">> >> \o a : a \in TokensUpTo(MaxFlags) } \cup { ComposeTestArgs }

KeyInit ==
    /\ f_pc = "call"
    /\ f_in \in { Some(a) : a \in ComposeArgLists }
    /\ f_out = None

KeyCalled ==
    /\ f_pc = "call"
    /\ f_out' = Some(_extract_command_key(f_in.v))
    /\ f_pc' = "done"
    /\ UNCHANGED <<f_in, gvars, pvars, xvars, ovars, cvars, dvars, tvars>>

KeyNext == KeyCalled

InitKey ==
    KeyInit /\ GatewayIdle /\ PathIdle /\ CollectorIdle /\ CallbackIdle
    /\ ThreadsIdle /\ ExecutorIdle /\ RuntimeIdle /\ CliIdle

SpecKey == InitKey /\ [][KeyNext]_vars

\* ------------------------------------------------------------------------
\* One tool call after the other on one recorder, up to MaxStreak of them
\* ------------------------------------------------------------------------
\* three inputs of docker_cli that differ and one call of another tool
StreakStarts ==
    { [tool |-> "docker_cli",
       input |-> JsonInput(<< <<"command", StrValue(c)>> >>)] :
        c \in { <<"p", "s">>, <<"i", "n", "f", "o">>, <<"i", "m", "a", "g", "e", "s">> } }
    \cup { [tool |-> "list_files", input |-> JsonInput(<< <<"args", StrValue(<<"w">>)>> >>)] }

StreakOutputs ==
    { Some(<<"o", "k">>), Some(<<"i", "d">>), Some(<<"u", "p">>), Some(<<>>) }

StreakNext ==
    \/ \E s \in StreakStarts :
           /\ h_open = {} /\ c_now < MaxStreak
           /\ tool_started(s.tool, s.input, "r1")
    \/ \E o \in StreakOutputs : "r1" \in h_open /\ on_tool_end(o, "r1")
    \/ \E e \in ErrorTexts : "r1" \in h_open /\ on_tool_error(e, "r1")

InitStreak ==
    CollectorInit /\ GatewayIdle /\ PathIdle /\ FunctionsIdle /\ CallbackIdle
    /\ ThreadsIdle /\ ExecutorIdle /\ RuntimeIdle /\ CliIdle

SpecStreak == InitStreak /\ [][StreakNext]_vars

\* ------------------------------------------------------------------------
\* runtime.py and nodes.py: DockerGraphRuntime, the graph route_request ->
\* run_docker -> finalize_response, and its one DockerTrajectoryCallback.
\* The worker is the agent: it makes tool calls that the callback sees and
\* then returns a response or raises.  origin and thread_id of the state are
\* left out: no node reads them.
\* ------------------------------------------------------------------------
\* CoordinatorDockerNode.max_replan_attempts
max_replan_attempts == 2

\* config={"recursion_limit": 200}: the nodes one turn may run, scaled down
recursion_limit == 4

TextLoopDetected == <<"L", "O", "O", "P", " ", "D", "E", "T", "E", "C", "T", "E", "D">>

\* DOCKER_REPLAN_ALERT with the pattern filled in; the pattern is one element
\* and the instructions after it are left out
AlertMessage(pattern) ==
    TextLoopDetected
    \o <<" ", "-", " ", "E", "X", "E", "C", "U", "T", "I", "O", "N", " ", "P",
         "A", "U", "S", "E", "D", "\n", "\n", "P", "a", "t", "t", "e", "r", "n",
         ":", " ">>
    \o <<pattern>>

TextWorkerError ==
    <<"D", "o", "c", "k", "e", "r", " ", "w", "o", "r", "k", "e", "r", " ",
      "e", "r", "r", "o", "r", ":", " ">>

TextEmptyInput == <<"E", "m", "p", "t", "y", " ", "i", "n", "p", "u", "t", ".">>

\* bool(x) of an optional text
Truthy(x) == x.some /\ x.v # <<>>

\* x or ""
OrEmpty(x) == IF Truthy(x) THEN x.v ELSE <<>>

\* f"{x}" of an optional text
Formatted(x) == IF x.some THEN x.v ELSE <<"N", "o", "n", "e">>

\* RouterNode.invoke: the state after its update
RouterNode_invoke(state) ==
    IF Strip(OrEmpty(state.user_input)) = <<>>
    THEN [state EXCEPT !.route = Some(<<"d", "o", "c", "k", "e", "r">>),
                       !.error = Some(TextEmptyInput),
                       !.final_response = Some(TextEmptyInput)]
    ELSE [state EXCEPT !.route = Some(<<"d", "o", "c", "k", "e", "r">>),
                       !.docker_request = Some(Strip(OrEmpty(state.user_input)))]

_route_after_router(state) ==
    IF Truthy(state.error) THEN "finalize_response"
    ELSE IF state.route = Some(<<"d", "o", "c", "k", "e", "r">>) THEN "run_docker"
    ELSE "finalize_response"

_route_after_docker(state) ==
    IF Truthy(state.docker_request)
       /\ Contains(state.docker_request.v, TextLoopDetected)
    THEN "run_docker"
    ELSE "finalize_response"

\* how worker.invoke ends: with a response, with an exception of its own, or
\* with the DockerLoopException that the callback raised
WorkerOutcomes ==
    { [kind |-> "response", text |-> <<"o", "k">>],
      [kind |-> "exception", text |-> <<"b", "o", "o", "m">>] }

LoopOutcome(pattern) == [kind |-> "loop", text |-> AlertMessage(pattern)]

\* DockerWorkerNode.invoke: the dict it returns
DockerWorkerNode_invoke(outcome) ==
    CASE outcome.kind = "response" ->
             [response |-> Some(outcome.text), error |-> None]
      [] outcome.kind = "loop" ->
             [response |-> None, error |-> Some(outcome.text)]
      [] OTHER ->
             [response |-> None, error |-> Some(TextWorkerError \o outcome.text)]

\* the request of a replan
ReplanRequest(error_msg, docker_request, attempts) ==
    error_msg
    \o <<"\n", "\n", "O", "R", "I", "G", "I", "N", "A", "L", " ", "T", "A", "S",
         "K", ":", " ">>
    \o Formatted(docker_request)
    \o <<"\n", "\n", "A", "T", "T", "E", "M", "P", "T", ":", " ">>
    \o Decimal(attempts) \o <<"/">> \o Decimal(max_replan_attempts)
    \o <<"\n", "\n", "P", "l", "e", "a", "s", "e", " ", "e", "x", "e", "c", "u",
         "t", "e", " ", "a", " ", "r", "e", "v", "i", "s", "e", "d", " ", "p",
         "l", "a", "n", " ", "t", "o", " ", "c", "o", "m", "p", "l", "e", "t",
         "e", " ", "t", "h", "e", " ", "o", "r", "i", "g", "i", "n", "a", "l",
         " ", "t", "a", "s", "k", ".">>

\* a coordinator that replans whenever the worker reports a loop
ReplansAlways(error_msg, attempts) == Contains(error_msg, TextLoopDetected)

\* CoordinatorDockerNode.invoke: is the error of the worker a loop to replan
Replans(error_msg, attempts) ==
    Contains(error_msg, TextLoopDetected) /\ attempts < max_replan_attempts

\* DockerGraphRuntime.create
RuntimeInit ==
    /\ r_pc = "idle" /\ r_state = EmptyState /\ r_saved = EmptyState
    /\ r_replan_attempts = 0 /\ r_steps = 0 /\ r_turns = 0 /\ r_mark = 0
    /\ r_result = None

\* run_turn: graph.invoke on the initial state.  The checkpointer holds the
\* state the thread's last turn left; keep says whether the fields that the
\* initial state leaves None start from it (the same thread_id) or from None
run_turn(user_input, keep) ==
    /\ r_pc = "idle" /\ r_turns < MaxTurns
    /\ r_state' = [(IF keep THEN r_saved ELSE EmptyState)
                       EXCEPT !.user_input = Some(user_input)]
    /\ r_pc' = "route_request"
    /\ r_steps' = 0
    /\ r_turns' = r_turns + 1
    /\ r_mark' = Len(d_history)
    /\ r_result' = None
    /\ UNCHANGED <<r_saved, r_replan_attempts, gvars, pvars, cvars, fvars, dvars,
                   tvars, xvars, kvars>>

\* the node route_request and the edge after it
route_request ==
    /\ r_pc = "route_request" /\ r_steps < recursion_limit
    /\ r_state' = RouterNode_invoke(r_state)
    /\ r_pc' = _route_after_router(r_state')
    /\ r_steps' = r_steps + 1
    /\ UNCHANGED <<r_saved, r_replan_attempts, r_turns, r_mark, r_result,
                   gvars, pvars, cvars, fvars, dvars, tvars, xvars, kvars>>

\* the node run_docker up to the call of worker.invoke
run_docker_enter ==
    /\ r_pc = "run_docker" /\ r_steps < recursion_limit
    /\ r_pc' = "worker"
    /\ r_steps' = r_steps + 1
    /\ d_result' = NoCallbackResult
    /\ UNCHANGED <<r_state, r_saved, r_replan_attempts, r_turns, r_mark,
                   r_result, d_trajectory, d_loop, d_history, d_counts,
                   gvars, pvars, cvars, fvars, tvars, xvars, kvars>>

\* the worker is running and no callback has raised
WorkerRuns == r_pc = "worker" /\ ~d_result.raised

\* the node run_docker from the return of worker.invoke on, and the edge
\* after it
run_docker_leave(outcome) ==
    LET result == DockerWorkerNode_invoke(outcome)
        error_msg == OrEmpty(result.error)
        replan == Truthy(result.error) /\ Replans(error_msg, r_replan_attempts) IN
    /\ r_pc = "worker"
    /\ r_state' =
           IF replan
           THEN [r_state EXCEPT
                    !.docker_request =
                        Some(ReplanRequest(error_msg, r_state.docker_request,
                                           r_replan_attempts + 1)),
                    !.docker_response = Some(<<>>)]
           ELSE IF Truthy(result.error)
           THEN [r_state EXCEPT !.error = Some(error_msg)]
           ELSE [r_state EXCEPT !.docker_response = Some(OrEmpty(result.response))]
    /\ r_replan_attempts' =
           IF replan THEN r_replan_attempts + 1
           ELSE IF Truthy(result.error) THEN r_replan_attempts
           ELSE 0
    /\ IF replan
       THEN \* self.docker_node.trajectory_callback.clear()
            /\ d_trajectory' = <<>> /\ d_history' = <<>> /\ d_counts' = NoCounts
            /\ d_loop' = FALSE /\ d_result' = Returned("clear")
            /\ r_mark' = 0
       ELSE UNCHANGED <<dvars, r_mark>>
    /\ r_pc' = _route_after_docker(r_state')
    /\ UNCHANGED <<r_saved, r_steps, r_turns, r_result,
                   gvars, pvars, cvars, fvars, tvars, xvars, kvars>>

\* worker.invoke returns or raises an exception of its own
worker_returns(outcome) ==
    /\ WorkerRuns /\ InProgress("r1") = {}
    /\ run_docker_leave(outcome)

\* the DockerLoopException of the callback leaves worker.invoke
worker_loop_alert ==
    /\ r_pc = "worker" /\ d_result.raised
    /\ run_docker_leave(LoopOutcome(d_result.v))

\* the node finalize_response; run_turn returns the final response
finalize_response ==
    /\ r_pc = "finalize_response" /\ r_steps < recursion_limit
    /\ r_state' = [r_state EXCEPT
                      !.final_response =
                          IF Truthy(r_state.error) THEN r_state.error
                          ELSE Some(OrEmpty(r_state.docker_response))]
    /\ r_saved' = r_state'
    /\ r_result' = Returned(OrEmpty(r_state'.final_response))
    /\ r_pc' = "idle"
    /\ r_steps' = r_steps + 1
    /\ UNCHANGED <<r_replan_attempts, r_turns, r_mark,
                   gvars, pvars, cvars, fvars, dvars, tvars, xvars, kvars>>

\* the graph has run recursion_limit nodes and has not ended: graph.invoke
\* raises GraphRecursionError, which leaves run_turn
recursion_limit_reached ==
    /\ r_pc \in {"run_docker", "finalize_response"} /\ r_steps >= recursion_limit
    /\ r_saved' = r_state
    /\ r_result' = Raised("GraphRecursionError", <<>>)
    /\ r_pc' = "idle"
    /\ UNCHANGED <<r_state, r_replan_attempts, r_steps, r_turns, r_mark,
                   gvars, pvars, cvars, fvars, dvars, tvars, xvars, kvars>>

\* what the user types, what the worker does
RuntimeInputs ==
    { <<"p", "s">>, <<" ">> }

RuntimeStarts ==
    { [tool |-> "docker_cli",
       input |-> JsonInput(<< <<"command", StrValue(c)>> >>)] :
        c \in { <<"p", "s">>, <<"i", "n", "f", "o">> } }

RuntimeOutputs == { <<"o", "k">> }

RuntimeNext ==
    \/ \E u \in RuntimeInputs, keep \in BOOLEAN : run_turn(u, keep)
    \/ route_request
    \/ run_docker_enter
    \/ \E s \in RuntimeStarts :
           WorkerRuns /\ InProgress("r1") = {} /\ Len(d_trajectory) < MaxWorkerEvents
           /\ callback_tool_started(s.tool, s.input, "r1")
    \/ \E o \in RuntimeOutputs :
           WorkerRuns /\ InProgress("r1") # {} /\ callback_on_tool_end(o, "r1")
    \/ \E w \in WorkerOutcomes : worker_returns(w)
    \/ worker_loop_alert
    \/ finalize_response
    \/ recursion_limit_reached

InitRuntime ==
    RuntimeInit /\ CallbackInit /\ GatewayIdle /\ PathIdle /\ CollectorIdle
    /\ FunctionsIdle /\ ThreadsIdle /\ ExecutorIdle /\ CliIdle

SpecRuntime == InitRuntime /\ [][RuntimeNext]_vars

\* ------------------------------------------------------------------------
\* cli.py: main.  One call of main with its options and with the lines the
\* user types at the 'docker' prompt; the echoes are left out.
\* ------------------------------------------------------------------------
\* the parameters of create_docker_graph_runtime
CreateParameters ==
    {"model", "temperature", "workspace_dir", "skills_dir", "app_title",
     "enable_hitl"}

\* the parameters of DockerGraphRuntime.run_turn
RunTurnParameters == {"user_input", "thread_id"}

\* a call that passes the keyword arguments to a function with the
\* parameters: TypeError for a keyword that is no parameter
Call(parameters, keywords) ==
    IF keywords \subseteq parameters THEN Returned("called")
    ELSE Raised("TypeError", CHOOSE k \in keywords \ parameters : TRUE)

\* the record that _finalize_trajectory writes for a turn: the runtime hands
\* the callbacks of the CLI to no worker, so the cleared recorder has seen
\* no event
EmptyRecord(task) == [task |-> task, tool_calls |-> <<>>, llm_calls |-> <<>>]

\* one turn of main: _build_callbacks, runtime.run_turn, _finalize_trajectory
CliTurn(opts, records, task) ==
    LET call == Call(RunTurnParameters, {"thread_id", "callbacks"}) IN
    IF call.raised THEN [records |-> records, exc |-> Some(call)]
    ELSE [records |-> IF opts.trajectory THEN Append(records, EmptyRecord(task))
                      ELSE records,
          exc |-> None]

TextExit == <<"e", "x", "i", "t">>

TextQuit == <<"q", "u", "i", "t">>

\* while True: click.prompt, until exit, quit, the end of the input or an
\* exception
RECURSIVE Repl(_, _, _)
Repl(opts, records, typed) ==
    IF typed = <<>> \/ Lower(Strip(Head(typed))) \in {TextExit, TextQuit}
    THEN [records |-> records, exc |-> None]
    ELSE LET turn == CliTurn(opts, records, Head(typed)) IN
         IF turn.exc.some THEN turn
         ELSE Repl(opts, turn.records, Tail(typed))

\* main: what it has written to the trajectory log when it ends, and the
\* exception that ended it
MainRun(opts, typed) ==
    LET created == Call(CreateParameters,
                        {"model", "temperature", "enable_hitl", "provider_sort"}) IN
    IF created.raised THEN [records |-> <<>>, exc |-> Some(created)]
    ELSE IF Truthy(opts.prompt) THEN CliTurn(opts, <<>>, opts.prompt.v)
    ELSE Repl(opts, <<>>, typed)

main ==
    /\ k_pc = "start"
    /\ LET run == MainRun(k_opts.v, k_input.v) IN
       /\ k_records' = run.records
       /\ k_exc' = run.exc
       /\ k_pc' = IF run.exc.some THEN "raised" ELSE "ended"
    /\ UNCHANGED <<k_opts, k_input, gvars, pvars, cvars, fvars, dvars, tvars,
                   xvars, rvars>>

CliPrompts == { None, Some(<<>>), Some(<<"p", "s">>) }

CliLines == { <<"p", "s">>, <<" ", "E", "x", "i", "t">>, TextQuit }

CliInit ==
    /\ k_pc = "start"
    /\ k_opts \in { Some([prompt |-> p, trajectory |-> t, verbose |-> v, hitl |-> h]) :
                      p \in CliPrompts, t \in BOOLEAN, v \in BOOLEAN, h \in BOOLEAN }
    /\ k_input \in { Some(q) : q \in SeqsUpTo(CliLines, MaxLines) }
    /\ k_records = <<>>
    /\ k_exc = None

CliNext == main

InitCli ==
    CliInit /\ GatewayIdle /\ PathIdle /\ CollectorIdle /\ FunctionsIdle
    /\ CallbackIdle /\ ThreadsIdle /\ ExecutorIdle /\ RuntimeIdle

SpecCli == InitCli /\ [][CliNext]_vars

\* ------------------------------------------------------------------------
\* One turn of a recorder whose caller reads the tool_calls property and
\* calls finalize(); a tool input carries a credential in its text
\* ------------------------------------------------------------------------
\* the tool_calls property: list(self._tool_calls)
tool_calls_property ==
    /\ c_record' = Some(c_tool_calls)
    /\ c_last' = Event("tool_calls", "", TRUE)
    /\ UNCHANGED <<c_tool_calls, c_pending, c_seq, c_loop, c_empty, c_streak,
                   c_started_at, c_redact, c_now, h_open, lvars, h_starts,
                   gvars, pvars, nvars>>

ReleaseStarts ==
    { [tool |-> "docker_cli",
       input |-> LiteralInput(<< <<"command", StrValue(<<"r", "u", "n">>)>>,
                                 <<"args", StrValue(TextAuth)>> >>)],
      [tool |-> "docker_cli",
       input |-> JsonInput(<< <<"command", StrValue(<<"p", "s">>)>> >>)] }

ReleaseNext ==
    \/ \E s \in ReleaseStarts : h_open = {} /\ on_tool_start(s.tool, s.input, "r1")
    \/ \E o \in TurnOutputs : on_tool_end(o, "r1")
    \/ \E e \in ErrorTexts : on_tool_error(e, "r1")
    \/ \E t \in Tasks : finalize(t, TRUE)
    \/ tool_calls_property

InitRelease == CollectorInit /\ GatewayIdle /\ PathIdle /\ FunctionsIdle /\ CallbackIdle
    /\ ThreadsIdle /\ ExecutorIdle /\ RuntimeIdle /\ CliIdle

SpecRelease == InitRelease /\ [][ReleaseNext]_vars

\* ------------------------------------------------------------------------
\* Properties of the command gateway
\* ------------------------------------------------------------------------
Started == g_out.spawns # <<>>

SafeCall == g_pc = "done" /\ g_in.tool = "_run_safe_docker_cli"

\* the shell control operators, as the documentation lists them
ControlOperators ==
    { <<";">>, <<"&", "&">>, <<"|", "|">>, <<"|">>, <<Backquote>>, <<"$", "(">> }

HasControlOperator(args) ==
    \E i \in 1..Len(args) : \E m \in ControlOperators : Contains(args[i], m)

ShellError ==
    Raised("ValueError", <<"Shell control operators are not allowed">>)

KeyOf(args) == _extract_command_key(args)

HasKeyOutside(args) ==
    args # <<>> /\ ~KeyOf(args).raised /\ KeyOf(args).v \notin SAFE_DOCKER_COMMANDS

NotAllowedError(args) ==
    Raised("ValueError", <<"Command not allowed: ">> \o KeyOf(args).v)

C2_EveryStartValidated ==
    g_pc = "done" =>
        \A i \in 1..Len(g_out.spawns) :
            \E a \in g_out.checked : g_out.spawns[i].argv = << <<"docker">> >> \o a

\* C3: an argument list with a token that contains one of ; && || | ` $( is
\* rejected with 'Shell control operators are not allowed', also when its key
\* is not allowed, and no process is started.
C3_ShellOperatorsRejectedFirst ==
    (SafeCall /\ HasControlOperator(g_in.args)) =>
        (g_out.result = ShellError /\ ~Started)

C3_Witness ==
    /\ SafeCall
    /\ g_in.args = << <<"rm">>, <<"nginx", ";", "rm">> >>
    /\ HasKeyOutside(g_in.args)
    /\ g_out.result = ShellError
    /\ ~Started

\* the allow-list of the documentation
ReadOnlyKeys ==
    { <<"ps">>, <<"images">>, <<"logs">>, <<"stats">>, <<"inspect">>, <<"info">>,
      <<"version">>, <<"network", " ", "ls">>, <<"network", " ", "inspect">>,
      <<"volume", " ", "ls">>, <<"volume", " ", "inspect">>,
      <<"compose", " ", "ps">>, <<"compose", " ", "logs">> }

MutatingKeys ==
    { <<"run">>, <<"pull">>, <<"build">>, <<"tag">>, <<"exec">>,
      <<"network", " ", "create">>, <<"network", " ", "connect">>,
      <<"network", " ", "disconnect">>, <<"volume", " ", "create">>,
      <<"compose", " ", "up">>, <<"compose", " ", "down">> }

\* C4: _validate_docker_command accepts every argument list without shell
\* control operators whose key is one of the mutating keys run, pull, build,
\* tag, exec, network create/connect/disconnect, volume create, compose
\* up/down, or a read-only key.
C4_MutatingKeysAccepted ==
    ( /\ SafeCall
      /\ ~HasControlOperator(g_in.args)
      /\ g_in.args # <<>>
      /\ ~KeyOf(g_in.args).raised
      /\ KeyOf(g_in.args).v \in MutatingKeys \cup ReadOnlyKeys )
    => g_out.checked = {g_in.args}

BashCall == g_pc = "done" /\ g_in.tool = "docker_bash"

\* C5: docker_bash resolves a given cwd under the workspace root: a cwd that
\* resolves outside the root gives the path-escape error and no process, and
\* the working directory of a started process is the resolved cwd, the root
\* or a descendant of it.
C5_CwdResolvedUnderRoot ==
    (BashCall /\ g_in.cwd.some /\ g_in.cwd.v # <<>>) =>
        LET resolved == _resolve_workspace_path(g_in.cwd) IN
        /\ resolved.raised =>
               (~Started /\ g_out.result = Returned(ErrorPrefix(resolved.v)))
        /\ \A i \in 1..Len(g_out.spawns) :
               /\ ~resolved.raised
               /\ g_out.spawns[i].cwd = Some(PathStr(resolved.v))

DirectCall == g_pc = "done" /\ g_in.tool = "_run_docker_cli"

TimedOut == Started /\ g_env.proc.kind = "timeout"

\* C7: when the process exceeds its timeout of N seconds, _run_docker_cli
\* returns exit code 124, the stdout captured so far ("" if none) and the
\* stderr 'Docker command timed out after Ns'; it raises nothing and starts
\* the process once.
C7_TimeoutIs124 ==
    (DirectCall /\ TimedOut) =>
        /\ ~g_out.result.raised
        /\ g_out.result.v =
             << 124,
                IF g_env.proc.stdout.some THEN g_env.proc.stdout.v ELSE <<>>,
                <<"Docker command timed out after ", ToString(g_in.timeout), "s">> >>
        /\ Len(g_out.spawns) = 1

C7_Witness ==
    /\ DirectCall /\ TimedOut
    /\ g_in.timeout = 7
    /\ g_env.proc.stdout = Some(<<"part">>)
    /\ g_out.result.v = <<124, <<"part">>, <<"Docker command timed out after ", "7", "s">> >>

\* the exit code and stderr that _run_safe_docker_cli reported
ReportedCode == IF g_env.proc.kind = "timeout" THEN 124 ELSE g_env.proc.code

ReportedStderr ==
    IF g_env.proc.kind = "timeout"
    THEN <<"Docker command timed out after ", ToString(g_in.timeout), "s">>
    ELSE g_env.proc.stderr

Completed == Started /\ g_env.proc.kind \in {"exit", "timeout"}

BlankCommand == ShlexSplit(g_in.command) = Returned(<<>>)

NoArgText == ~g_in.argtext.some \/ g_in.argtext.v = <<>>

\* what the three shapes of C8 have in common
BashShapes(failure_text) ==
    /\ ~g_out.result.raised
    /\ (Completed /\ ReportedCode = 0) => g_out.result.v = g_env.proc.stdout.v
    /\ (Completed /\ ReportedCode # 0) =>
           g_out.result.v = <<"Error (exit ", ToString(ReportedCode), "): ">>
                            \o failure_text
    /\ ~Completed => StartsWith(g_out.result.v, <<"Error: ">>)
    /\ (BlankCommand /\ NoArgText) =>
           (~Started /\ g_out.result.v = <<"Error: ", "Docker command is required">>)

\* C8 as stated: after 'Error (exit N): ' comes stderr itself.
C8_AsStated == BashCall => BashShapes(ReportedStderr)

\* C8: docker_bash always returns a string and never raises: stdout when the
\* exit code is 0; for an exit code N # 0 'Error (exit N): ' followed by
\* stderr without its surrounding white space, or by 'Command failed' when
\* nothing is left of it; 'Error: <message>' when the command is rejected
\* before execution.
C8_AlwaysAString ==
    BashCall =>
        BashShapes(IF Strip(ReportedStderr) = <<>> THEN <<"Command failed">>
                   ELSE Strip(ReportedStderr))

C8_Witness ==
    /\ BashCall /\ Completed
    /\ g_env.proc.code = 1
    /\ g_env.proc.stderr = <<" ", "bad", "\n">>
    /\ g_out.result.v = <<"Error (exit ", "1", "): ", "bad">>

\* ------------------------------------------------------------------------
\* Properties of the workspace paths
\* ------------------------------------------------------------------------
Resolved == p_pc = "done"

\* lexical normalisation of a component list: ".." removes the component
\* before it, the file system is not consulted
RECURSIVE Normalised(_, _)
Normalised(acc, rest) ==
    IF rest = <<>> THEN acc
    ELSE IF Head(rest) = <<".", ".">>
    THEN Normalised(IF acc = <<>> THEN <<>> ELSE SubSeq(acc, 1, Len(acc) - 1),
                    Tail(rest))
    ELSE Normalised(Append(acc, Head(rest)), Tail(rest))

RootOrBelow(parts) ==
    Len(parts) >= Len(WorkspaceRoot)
    /\ \A i \in 1..Len(WorkspaceRoot) : parts[i] = WorkspaceRoot[i]

\* the components of a path text, "." and "" included
RECURSIVE Components(_, _)
Components(s, cur) ==
    IF s = <<>> THEN <<cur>>
    ELSE IF Head(s) = "/" THEN <<cur>> \o Components(Tail(s), <<>>)
    ELSE Components(Tail(s), Append(cur, Head(s)))

Names(s) == SelectSeq(Components(s, <<>>), LAMBDA c : c # <<>> /\ c # <<".">>)

ClimbsOut(text) == ~RootOrBelow(Normalised(<<>>, WorkspaceRoot \o Names(text)))

Plain(text) ==
    \A i \in 1..Len(Names(text)) :
        Names(text)[i] # <<".", ".">> /\ Names(text)[i] # <<"l">>

\* C6: _resolve_workspace_path returns the workspace root or a path below it
\* and raises 'Path must stay inside workspace root' otherwise: None, '' and
\* '/' give the root, a leading '/' is taken relative to the root, and a path
\* whose '..' components climb out of the root is rejected.
C6_ResolveStaysInside ==
    Resolved =>
        /\ ~p_result.raised => RootOrBelow(p_result.v)
        /\ p_result.raised =>
               /\ p_result.exc = "ValueError"
               /\ Head(p_result.v) = "Path must stay inside workspace root: "
        /\ p_path \in {None, Some(<<>>), Some(<<"/">>)} =>
               p_result = Returned(WorkspaceRoot)
        /\ (p_path.some /\ StartsWith(Strip(p_path.v), <<"/">>)
               /\ Plain(Strip(p_path.v))) =>
               p_result = Returned(WorkspaceRoot \o Names(Strip(p_path.v)))
        /\ (p_path.some /\ ClimbsOut(Strip(p_path.v))) => p_result.raised

C6_Witness ==
    /\ Resolved
    /\ p_path = Some(<<".", ".", "/", ".", ".">>)
    /\ ClimbsOut(p_path.v)
    /\ p_result.raised

\* ------------------------------------------------------------------------
\* The recorder pairs every start with one record
\* ------------------------------------------------------------------------
EndOrError == {"on_tool_end", "on_tool_error"}

\* the step appended exactly one record, for run id r
AppendedOneFor(r) ==
    /\ Len(c_tool_calls') = Len(c_tool_calls) + 1
    /\ SubSeq(c_tool_calls', 1, Len(c_tool_calls)) = c_tool_calls
    /\ c_tool_calls'[Len(c_tool_calls')].run_id = r

\* the step left the calls, the sequence counter and the loop counters alone
RecorderUntouched ==
    /\ c_tool_calls' = c_tool_calls
    /\ c_seq' = c_seq
    /\ c_empty' = c_empty
    /\ c_streak' = c_streak
    /\ c_loop' = c_loop

\* C9: the first on_tool_end or on_tool_error for a run id that was started
\* (and not ended or cleared since) appends exactly one record, the one of that
\* run id; an on_tool_end or on_tool_error for a run id with no pending start
\* appends nothing and leaves tool_calls, the sequence counter and the
\* loop-detection counters as they were; on_tool_start appends nothing.
C9_OneRecordPerStart ==
    [][ /\ c_last'.op \in EndOrError =>
            IF c_last'.run_id \in h_open
            THEN AppendedOneFor(c_last'.run_id)
            ELSE RecorderUntouched
        /\ c_last'.op = "on_tool_start" => c_tool_calls' = c_tool_calls ]_vars

\* an on_tool_end was discarded for a run id that had already been recorded,
\* while another call was still pending
C9_Witness ==
    /\ c_last.op = "on_tool_end"
    /\ ~c_last.hit
    /\ \E i \in 1..Len(c_tool_calls) : c_tool_calls[i].run_id = c_last.run_id
    /\ h_open # {}

\* C10: in every finalized trajectory tool_calls[i].sequence = i, counting
\* from zero, whatever the order of the start, end and error events was.
C10_SequencesDense ==
    c_record.some =>
        \A i \in 1..Len(c_record.v.tool_calls) :
            c_record.v.tool_calls[i].sequence = i - 1

\* ------------------------------------------------------------------------
\* The timestamps of a finalized record
\* ------------------------------------------------------------------------
Finalized == c_record.some

Earliest(times) == CHOOSE t \in times : \A u \in times : t <= u

\* C11: a finalized record has started_at <= completed_at, and when a tool
\* call has started since construction or the last clear(), started_at is the
\* time of the earliest such on_tool_start.
C11_StartedAtIsFirstStart ==
    Finalized =>
        /\ c_record.v.started_at <= c_record.v.completed_at
        /\ h_starts # {} => c_record.v.started_at = Earliest(h_starts)

\* a tool call started after a clear(), later than construction (time 0), and
\* the record was finalized later still
C11_Witness ==
    /\ Finalized
    /\ h_starts # {}
    /\ c_record.v.started_at # 0
    /\ c_record.v.started_at < c_record.v.completed_at

\* ------------------------------------------------------------------------
\* Redaction of a finalized record
\* ------------------------------------------------------------------------
\* the credential values _REDACT_RE matches in the text from position i on
RECURSIVE MatchedFrom(_, _)
MatchedFrom(text, i) ==
    IF i > Len(text) THEN {}
    ELSE LET m == MatchAt(text, i) IN
         IF m.ok
         THEN {SubSeq(text, RunEnd(text, m.sep + 1, {" ", "\n", "\t"}), m.stop - 1)}
              \cup MatchedFrom(text, m.stop)
         ELSE IF text[i] \in WordChars
         THEN MatchedFrom(text, RunEnd(text, i, WordChars))
         ELSE MatchedFrom(text, i + 1)

CredentialValues(text) == MatchedFrom(text, 1)

\* the strings at any depth of a value
RECURSIVE StringsIn(_)
StringsIn(value) ==
    IF value.kind = "str" THEN {value.text}
    ELSE UNION {StringsIn(value.items[i]) : i \in 1..Len(value.items)}

OptText(x) == IF x.some THEN {x.v} ELSE {}

\* the texts of a tool call that redaction answers for
CallTexts(tc) ==
    {tc.input_raw}
    \cup OptText(tc.output) \cup OptText(tc.error)
    \cup (IF tc.docker_cli_args.some
          THEN OptText(tc.docker_cli_args.v.args) \cup {tc.docker_cli_args.v.full_command}
          ELSE {})
    \cup UNION {StringsIn(tc.input_parsed[i][2]) : i \in 1..Len(tc.input_parsed)}

\* none of the texts after holds a credential value matched in a text before
NoneLeft(before, after) ==
    \A t \in before : \A v \in CredentialValues(t) : \A u \in after : ~Contains(u, v)

\* C12: after finalize() with redaction enabled, no credential value the
\* pattern matches in the task or in a tool call's input_raw, output, error,
\* docker_cli_args.args, docker_cli_args.full_command or a string at any depth
\* of input_parsed remains in that field of the record.
C12_NoCredentialLeft ==
    [][\A t \in Tasks :
          (c_redact /\ c_last'.op = "finalize" /\ finalize(t, TRUE)) =>
              /\ NoneLeft({t}, {c_record'.v.task})
              /\ \A i \in 1..Len(c_tool_calls) :
                     NoneLeft(CallTexts(c_tool_calls[i]),
                              CallTexts(c_record'.v.tool_calls[i]))]_vars

\* C13: redaction is idempotent, _redact_string(_redact_string(s)) equals
\* _redact_string(s) for every string s.
C13_RedactIdempotent ==
    f_pc = "done" => _redact_string(f_out.v) = f_out.v

\* ------------------------------------------------------------------------
\* Loop detection and success
\* ------------------------------------------------------------------------
\* the success flags of the tool calls, in order
Flags(calls) == [i \in 1..Len(calls) |-> calls[i].success]

IsPrefix(p, q) == Len(p) <= Len(q) /\ SubSeq(q, 1, Len(p)) = p

\* C14: loop detection never decides success: finalize(success = s) returns a
\* record with success = s whatever loop_detected is, the record's tool calls
\* carry the success flags they were recorded with, and no callback, whether
\* it sets the loop flag or not, changes the success flag of a call already
\* recorded.
C14_LoopNeverDecidesSuccess ==
    [][/\ \A t \in Tasks, s \in BOOLEAN :
             (c_last'.op = "finalize" /\ finalize(t, s)) =>
                 /\ c_record'.v.success = s
                 /\ Flags(c_record'.v.tool_calls) = Flags(c_tool_calls)
       /\ IsPrefix(Flags(c_tool_calls), Flags(c_tool_calls'))]_vars

\* max_repeated_calls identical successful docker_cli calls: the loop flag is
\* set, every call is successful and the record finalized with success = true
\* is successful
C14_Witness ==
    /\ Finalized
    /\ c_record.v.metrics.loop_detected
    /\ c_record.v.success
    /\ Len(c_record.v.tool_calls) = max_repeated_calls
    /\ \A i \in 1..Len(c_record.v.tool_calls) :
           /\ c_record.v.tool_calls[i].success
           /\ c_record.v.tool_calls[i].tool = "docker_cli"
           /\ c_record.v.tool_calls[i].input_raw = c_record.v.tool_calls[1].input_raw

\* ------------------------------------------------------------------------
\* The recorder of the graph runtime
\* ------------------------------------------------------------------------
\* C15: loop detection is flag-only: no on_tool_end of the recorder the
\* runtime installs raises an exception when a loop pattern is met, whatever
\* JSON or Python-literal mapping the tool input is.
C15_LoopDetectionNeverRaises == ~d_result.raised

\* ------------------------------------------------------------------------
\* The expanded docker_cli arguments
\* ------------------------------------------------------------------------
HasKey(parsed, key) == \E i \in 1..Len(parsed) : parsed[i][1] = key

\* C16: a recorded call has docker_cli_args exactly when its tool is
\* docker_cli and its input_parsed contains the key "command", whatever the
\* value; an input parsed as {"raw": input} has none.
C16_DockerArgsIffCommandKey ==
    \A i \in 1..Len(c_tool_calls) :
        c_tool_calls[i].docker_cli_args.some
            <=> (c_tool_calls[i].tool = "docker_cli"
                 /\ HasKey(c_tool_calls[i].input_parsed, "command"))

\* ------------------------------------------------------------------------
\* The docker commands of the metrics
\* ------------------------------------------------------------------------
\* the positions of the calls that carry the docker command
CallsOf(command) ==
    { i \in 1..Len(c_tool_calls) :
        /\ c_tool_calls[i].docker_cli_args.some
        /\ c_tool_calls[i].docker_cli_args.v.command = command }

FirstCallOf(command) == CHOOSE i \in CallsOf(command) : \A j \in CallsOf(command) : i <= j

\* C17: metrics.docker_commands_used of a finalized record holds each
\* distinct docker_cli_args.command of the recorded calls exactly once, in the
\* order the commands were first seen, the commands of failed calls included.
C17_CommandsOnceInFirstSeenOrder ==
    Finalized =>
        LET used == c_record.v.metrics.docker_commands_used IN
        /\ \A i, j \in 1..Len(used) : used[i] = used[j] => i = j
        /\ \A i \in 1..Len(used) : CallsOf(used[i]) # {}
        /\ \A k \in 1..Len(c_tool_calls) :
               c_tool_calls[k].docker_cli_args.some =>
                   \E i \in 1..Len(used) :
                       used[i] = c_tool_calls[k].docker_cli_args.v.command
        /\ \A i, j \in 1..Len(used) :
               i < j => FirstCallOf(used[i]) < FirstCallOf(used[j])

\* two docker commands, the one seen first in a call that failed
C17_Witness ==
    /\ Finalized
    /\ Len(c_record.v.metrics.docker_commands_used) = 2
    /\ ~c_tool_calls[1].success
    /\ c_tool_calls[1].docker_cli_args.some
    /\ c_record.v.metrics.docker_commands_used[1]
           = c_tool_calls[1].docker_cli_args.v.command

\* ------------------------------------------------------------------------
\* The classification of a tool output
\* ------------------------------------------------------------------------
\* the lower-cased text of the output contains one of the error patterns
ErrorLike(output) ==
    output.some /\ \E p \in ErrorPatterns : Contains(Lower(output.v), p)

\* the output is null or, stripped of surrounding whitespace, one of the
\* empty texts
EmptyLike(output) == ~output.some \/ Strip(output.v) \in EmptyTexts

LastCall(calls) == calls[Len(calls)]

\* C18: a tool_end output is recorded as a success exactly when it is neither
\* error-like nor empty, an error-like output is recorded as the error, and a
\* tool_error is recorded with success false and the exception text as error.
C18_ErrorFirstEmptySecond ==
    [][/\ \A o \in ClassOutputs :
             (c_last'.op = "on_tool_end" /\ c_last'.hit /\ on_tool_end(o, "r1")) =>
                 /\ LastCall(c_tool_calls').success = (~ErrorLike(o) /\ ~EmptyLike(o))
                 /\ LastCall(c_tool_calls').error = IF ErrorLike(o) THEN o ELSE None
       /\ \A e \in ErrorTexts :
             (c_last'.op = "on_tool_error" /\ c_last'.hit /\ on_tool_error(e, "r1")) =>
                 /\ ~LastCall(c_tool_calls').success
                 /\ LastCall(c_tool_calls').error = Some(e)
                 /\ LastCall(c_tool_calls').output = None]_vars

\* an error-like output and then an output that is empty once stripped were
\* recorded as failures, the first with its text as error, the second without
C18_Witness ==
    /\ Len(c_tool_calls) = 2
    /\ ~c_tool_calls[1].success /\ c_tool_calls[1].error = c_tool_calls[1].output
    /\ ErrorLike(c_tool_calls[1].output)
    /\ ~c_tool_calls[2].success /\ c_tool_calls[2].error = None
    /\ c_tool_calls[2].output.some /\ EmptyLike(c_tool_calls[2].output)

\* ------------------------------------------------------------------------
\* finalize() and clear()
\* ------------------------------------------------------------------------
\* C19: finalize() changes none of the recorder's state (tool_calls,
\* llm_calls, the pending calls, the sequence counter, the loop flag and
\* counters, started_at) and returns the tool_calls and metrics that state
\* determines, so that a finalize() that follows at once returns them again.
C19_FinalizeChangesNothing ==
    [][c_last'.op = "finalize" =>
          /\ UNCHANGED <<c_tool_calls, c_llm_calls, c_pending, c_llm_pending, c_seq,
                         c_loop, c_empty, c_streak, c_started_at>>
          /\ c_record'.v.tool_calls = _redact_tool_calls(c_tool_calls)
          /\ c_record'.v.metrics = _compute_metrics]_vars

\* a record was finalized while the recorder holds a tool call, an LLM call
\* and a pending call
C19_Witness ==
    /\ Finalized
    /\ c_tool_calls # <<>> /\ c_llm_calls # <<>>
    /\ \E r \in RunIds : c_pending[r].present
    /\ c_seq = 2 /\ c_started_at.some

\* C20: after clear() tool_calls and llm_calls are empty, the loop flag is
\* off and the empty and streak counters are zero; the on_tool_start that
\* follows gets sequence 0 and sets started_at anew; an on_tool_end or
\* on_tool_error for a run started before the clear() is discarded, so every
\* recorded call was started since the last clear().
C20_ClearStartsAfresh ==
    [][/\ c_last'.op = "clear" =>
              /\ c_tool_calls' = <<>> /\ c_llm_calls' = <<>>
              /\ ~c_loop' /\ c_empty' = 0 /\ c_streak'.count = 0
       /\ (c_last.op = "clear" /\ c_last'.op = "on_tool_start") =>
              /\ c_pending'[c_last'.run_id].sequence = 0
              /\ c_started_at' = Some(c_now)
       /\ (c_last.op = "clear" /\ c_last'.op \in {"on_tool_end", "on_tool_error"}) =>
              ~c_last'.hit /\ c_tool_calls' = <<>>
       /\ \A i \in 1..Len(c_tool_calls') :
              c_tool_calls'[i].start_time \in h_starts']_vars

\* a tool call was started, the recorder cleared, and the call's on_tool_end
\* then discarded
C20_Witness ==
    /\ c_last.op = "on_tool_end" /\ ~c_last.hit
    /\ c_now > 0 /\ h_starts = {}
    /\ c_tool_calls = <<>> /\ c_seq = 0 /\ ~c_started_at.some

\* ------------------------------------------------------------------------
\* The recorder under threads
\* ------------------------------------------------------------------------
\* the positions of the records of a run id
RecordsOf(r) == { i \in 1..Len(c_tool_calls) : c_tool_calls[i].run_id = r }

\* the run ids whose on_tool_start returned
StartedRuns == { RunOf(th) : th \in { t \in Threads : t_reg[t].started } }

\* C21: whatever the interleaving of on_tool_start, on_tool_end,
\* on_tool_error, finalize and the tool_calls accessor on one recorder, a run
\* id that was started and got its end or error has exactly one record in
\* tool_calls, a run id that did not has none, no two records have the same
\* sequence number, and the accessor returns the records as they are.
C21_EachRunRecordedOnce ==
    /\ \A r \in StartedRuns \ h_open : Cardinality(RecordsOf(r)) = 1
    /\ \A r \in RunIds \ (StartedRuns \ h_open) : RecordsOf(r) = {}
    /\ \A r \in h_open : c_pending[r].present
    /\ \A i, j \in 1..Len(c_tool_calls) :
           i # j => c_tool_calls[i].sequence # c_tool_calls[j].sequence
    /\ c_last.op = "tool_calls" => c_record = Some(c_tool_calls)

\* two threads were inside on_tool_start together, both calls are recorded
\* and the accessor returned them
C21_Witness ==
    /\ StartedRuns = RunIds /\ h_open = {}
    /\ Len(c_tool_calls) = 2
    /\ c_tool_calls[1].sequence = 1 /\ c_tool_calls[2].sequence = 0
    /\ c_last.op = "tool_calls"

\* C22: no callback of the recorder waits forever for the recorder's own
\* lock: a thread that is inside on_tool_end leaves it, also when
\* _trigger_replan calls get_trajectory() while the lock is held, the lock is
\* free whenever no thread is inside a callback, on_tool_end that raised
\* included, and so a later callback can enter.
C22_NoCallbackBlocksForever ==
    /\ []((\A th \in Threads : t_pc[th] = "idle") => t_lock = Unlocked)
    /\ \A th \in Threads : (t_pc[th] # "idle") ~> (t_pc[th] = "idle")

\* a thread is inside get_trajectory() inside on_tool_end: it holds the lock
\* twice
C22_Witness ==
    \E th \in Threads :
        /\ t_pc[th] = "copy"
        /\ t_lock = [owner |-> th, depth |-> 2]

\* ------------------------------------------------------------------------
\* The output shaper
\* ------------------------------------------------------------------------
\* C23: _truncate_text(s, max) is s when len(s) <= max, and otherwise the
\* first floor(max/2) characters of s, the marker line with len(s) - max
\* omitted characters, and the last floor(max/2) characters of s, for every
\* max >= 0.
C23_HeadMarkerTail ==
    f_pc = "done" =>
        LET s == f_in.v.value
            max == f_in.v.max_chars
            half == max \div 2 IN
        f_out.v = IF Len(s) <= max THEN s
                  ELSE SubSeq(s, 1, half) \o TruncatedMarker(Len(s) - max)
                           \o SubSeq(s, Len(s) - half + 1, Len(s))

\* C24: truncating the result of a truncation with the same budget gives
\* that result again.
C24_TruncateIdempotent ==
    f_pc = "again" => f_out.v = _truncate_text(f_in.v.value, f_in.v.max_chars)

\* C25: the string _json returns has at most MAX_TOOL_RESPONSE_CHARS
\* characters, whatever the payload.
C25_ResponseWithinBudget ==
    f_pc = "done" => Len(f_out.v) <= MAX_TOOL_RESPONSE_CHARS

\* the subcommands whose output may be large
ReadStyleKeys ==
    { <<"logs">>, <<"inspect">>, <<"stats">>, <<"ps">>, <<"images">>,
      <<"compose", " ", "logs">>, <<"compose", " ", "ps">> }

\* the docker CLI tool started the process and it ended with exit code 0
BashSucceeded ==
    /\ BashCall /\ Started
    /\ g_env.proc.kind = "exit" /\ g_env.proc.code = 0

\* C26: on success the docker CLI tool returns the stdout of a read-style
\* subcommand (logs, inspect, stats, ps, images, compose logs, compose ps)
\* truncated to the response budget, and the stdout of any other subcommand
\* unchanged.
C26_ReadOutputsTruncated ==
    BashSucceeded =>
        LET key == KeyOf(Tail(g_out.spawns[1].argv)).v
            stdout == g_env.proc.stdout.v IN
        g_out.result.v = IF key \in ReadStyleKeys
                         THEN _truncate_text(stdout, MAX_TOOL_RESPONSE_CHARS)
                         ELSE stdout

\* ------------------------------------------------------------------------
\* The programmatic executor
\* ------------------------------------------------------------------------
\* C27: every call of CodeExecutor.execute returns, also for a program that
\* loops for ever and for one that catches exceptions inside its loop (a
\* program not finished by the timeout gets the [TIMEOUT] line).
C27_ExecuteReturns == (x_pc = "call") ~> (x_pc = "returned")

\* the module names the sandbox is said to admit
ImportableNames ==
    { <<"j", "s", "o", "n">>, <<"r", "e">>, <<"t", "i", "m", "e">>,
      <<"t", "e", "x", "t", "w", "r", "a", "p">>,
      <<"i", "t", "e", "r", "t", "o", "o", "l", "s">>,
      <<"f", "u", "n", "c", "t", "o", "o", "l", "s">>,
      <<"c", "o", "l", "l", "e", "c", "t", "i", "o", "n", "s">> }

\* the program is past its i-th statement
Passed(i) == x_run # "none" /\ x_at > i

\* the program's i-th statement raised ImportError
ImportFailed(i) ==
    /\ x_run = "raised" /\ x_at = i
    /\ x_exc # None /\ x_exc.v.exc = "ImportError"

\* execute returns in this step, after ImportError left the program
ImportErrorReturned ==
    /\ x_pc # "returned" /\ x_pc' = "returned"
    /\ x_run = "raised" /\ x_exc # None /\ x_exc.v.exc = "ImportError"

NotAllowedText == <<"n", "o", "t", " ", "a", "l", "l", "o", "w", "e", "d">>

\* C28: in the sandbox an import statement succeeds exactly for json, re,
\* time, textwrap, itertools, functools and collections; the import of any
\* other name raises ImportError, and execute returns an output that
\* contains '[ERROR]' and 'not allowed'.
C28_ImportsExactlyAllowed ==
    /\ [](x_prog # None =>
            \A i \in 1..Len(x_prog.v.head) :
                x_prog.v.head[i].op = "import" =>
                    /\ Passed(i) => x_prog.v.head[i].arg \in ImportableNames
                    /\ ImportFailed(i) => x_prog.v.head[i].arg \notin ImportableNames)
    /\ [][ImportErrorReturned =>
            /\ Contains(x_result'.v, ErrorTag)
            /\ Contains(x_result'.v, NotAllowedText)]_vars

\* 'import json' went through, 'import os' did not, and execute returned
\* the error
C28_Witness ==
    /\ x_pc = "returned"
    /\ x_prog.v.head = <<Import(ModJson), Import(ModOs)>>
    /\ ImportFailed(2)
    /\ Contains(x_result.v, ErrorTag)

\* ------------------------------------------------------------------------
\* Compose command keys
\* ------------------------------------------------------------------------
\* the global flags said to take a value
ValueTakingFlags ==
    { <<"-", "f">>, <<"-", "-", "file">>, <<"-", "p">>,
      <<"-", "-", "project-name">>, <<"-", "-", "profile">> }

\* what is left of the tokens after 'compose' when the global flags in
\* front are taken away: a value-taking flag goes with the token after it,
\* any other token that begins with a dash goes alone
RECURSIVE AfterGlobalFlags(_)
AfterGlobalFlags(rest) ==
    IF rest = <<>> THEN <<>>
    ELSE IF Head(rest) \in ValueTakingFlags
    THEN AfterGlobalFlags(IF Len(rest) >= 2 THEN Tail(Tail(rest)) ELSE <<>>)
    ELSE IF Head(Head(rest)) = "-" THEN AfterGlobalFlags(Tail(rest))
    ELSE rest

RECURSIVE IdenticalRun(_)
IdenticalRun(h) ==
    IF Len(h) <= 1 THEN Len(h)
    ELSE IF h[Len(h) - 1] = h[Len(h)]
    THEN 1 + IdenticalRun(SubSeq(h, 1, Len(h) - 1))
    ELSE 1

\* on_tool_end completes a call in this step
CallCompleted == Len(d_history') = Len(d_history) + 1

\* clear() is called in this step
Cleared == d_result' = Returned("clear")

\* C30, as stated: on_tool_end raises DockerLoopException when the
\* max_retries-th consecutive completed call with the same tool and input
\* completes and on no earlier call, so never for calls whose inputs differ;
\* after clear() the count starts from zero.
C30_AsStated ==
    [][/\ CallCompleted =>
            /\ IdenticalRun(d_history') = max_retries => d_result'.raised
            /\ IdenticalRun(d_history') < max_retries => ~d_result'.raised
       /\ Cleared => d_history' = <<>>]_vars

\* C30: on_tool_end raises DockerLoopException when the max_retries-th
\* consecutive completed call with the same tool and input completes, unless
\* the callback has raised already since the last clear(); the pattern of
\* identical calls raises on no earlier call and never for calls whose inputs
\* differ, which raise only when a pattern of container, network, volume,
\* port or pull counts is met; after clear() the count starts from zero and
\* the callback can raise again.
C30_RaisesOnThirdIdentical ==
    [][/\ CallCompleted =>
            /\ (IdenticalRun(d_history') = max_retries /\ ~d_loop)
                   => d_result'.raised
            /\ (d_result'.raised /\ d_result'.v = "identical")
                   => IdenticalRun(d_history') = max_retries
            /\ (d_result'.raised /\ IdenticalRun(d_history') < max_retries)
                   => d_result'.v \in {"container", "network", "volume", "port", "pull"}
       /\ Cleared => (d_history' = <<>> /\ ~d_loop')]_vars

\* the third 'ps' in a row ended and on_tool_end raised for identical calls
C30_Witness ==
    /\ d_result = Raised("DockerLoopException", "identical")
    /\ Len(d_history) = max_retries
    /\ IdenticalRun(d_history) = max_retries

\* ------------------------------------------------------------------------
\* Loop patterns of the recorder
\* ------------------------------------------------------------------------
\* the record was appended by on_tool_end with an output that is not empty
EndedWithOutput(tc) == tc.output.some /\ tc.output.v # <<>>

\* the record was appended by on_tool_end with an empty output
EndedEmpty(tc) == ~tc.output.some /\ ~tc.error.some

\* C31: max_repeated_calls + 1 consecutive completions of one tool, with
\* inputs that differ from each other and outputs that are not empty and
\* differ from each other, leave loop_detected false: the streak counts only
\* from more than max_repeated_calls + 1 completions on.
C31_StreakNeedsMoreCalls ==
    (/\ Len(c_tool_calls) = max_repeated_calls + 1
     /\ \A i \in 1..Len(c_tool_calls) :
            /\ EndedWithOutput(c_tool_calls[i])
            /\ c_tool_calls[i].tool = c_tool_calls[1].tool
     /\ \A i, j \in 1..Len(c_tool_calls) :
            i # j => /\ ~SameInput(c_tool_calls[i], c_tool_calls[j])
                     /\ c_tool_calls[i].output # c_tool_calls[j].output)
        => ~c_loop

\* C32: empty outputs of tool calls that alternate between different tools
\* do not set loop_detected: the empty-output pattern needs
\* max_repeated_calls consecutive empty outputs of one tool.
C32_EmptyOutputsOfOneTool ==
    (/\ Len(c_tool_calls) = max_repeated_calls
     /\ \A i \in 1..Len(c_tool_calls) : EndedEmpty(c_tool_calls[i])
     /\ \A i \in 1..(Len(c_tool_calls) - 1) :
            c_tool_calls[i].tool # c_tool_calls[i + 1].tool)
        => ~c_loop

\* C33: after every callback of the recorder, when the last
\* max_repeated_calls records of tool_calls have the same tool and the same
\* serialized input, loop_detected is true, whichever of on_tool_end and
\* on_tool_error appended the latest record.
C33_IdenticalCallsAreFlagged ==
    LET n == Len(c_tool_calls) IN
    (/\ n >= max_repeated_calls
     /\ \A i \in (n - max_repeated_calls + 1)..n :
            /\ c_tool_calls[i].tool = c_tool_calls[n].tool
            /\ SameInput(c_tool_calls[i], c_tool_calls[n]))
        => c_loop

\* ------------------------------------------------------------------------
\* The command line frontend
\* ------------------------------------------------------------------------
\* the turns that main is given: the prompt, or the lines typed before the
\* first exit or quit
RECURSIVE TurnsTyped(_)
TurnsTyped(typed) ==
    IF typed = <<>> \/ Lower(Strip(Head(typed))) \in {TextExit, TextQuit} THEN 0
    ELSE 1 + TurnsTyped(Tail(typed))

TurnsGiven ==
    IF Truthy(k_opts.v.prompt) THEN 1 ELSE TurnsTyped(k_input.v)

\* C34: with trajectory collection on, main emits exactly one finalized
\* record for every turn it is given, in the order of the turns, and each
\* record holds only the calls of its turn.
C34_OneRecordPerTurn ==
    (k_pc \in {"ended", "raised"} /\ k_opts.v.trajectory)
        => Len(k_records) = TurnsGiven

\* ------------------------------------------------------------------------
\* The graph runtime
\* ------------------------------------------------------------------------
\* worker.invoke ends in this step and the coordinator routes its result
WorkerResultRouted == r_pc = "worker" /\ r_pc' # "worker"

\* the coordinator answers the result of the worker with a replan
Replanned == r_replan_attempts' = r_replan_attempts + 1

\* C35: every run_turn reaches finalize_response: a result of the worker that
\* the coordinator does not answer with a replan (a response, an ordinary
\* error, a loop alert once the replan attempts are used up) is routed to
\* finalize_response, also after a replan, and no turn ends because the graph
\* ran out of steps.
C35_WorkerResultReachesFinalize ==
    [][/\ (WorkerResultRouted /\ ~Replanned) => r_pc' = "finalize_response"
       /\ r_result' # Raised("GraphRecursionError", <<>>)]_vars

\* C36: loop detection is per turn: when the callback raises, at least
\* max_retries tool calls have completed in this turn (since the turn began
\* or since the replan of this turn that cleared the callback), so that one
\* identical call in each of max_retries turns raises nothing.
C36_LoopDetectionIsPerTurn ==
    (r_pc = "worker" /\ d_result.raised) => Len(d_history) - r_mark >= max_retries

\* C37: while _loop_detected is set the callback raises nothing: a completed
\* call is recorded in the trajectory and the history and every loop pattern
\* it meets is ignored; the flag falls only when clear() empties the
\* callback; and the coordinator clears the callback when it answers a loop
\* alert with a replan and leaves it as it is, flag set, when the replan
\* attempts are used up.
C37_RaisesOncePerClear ==
    [][/\ (d_loop /\ d_result'.raised) => UNCHANGED dvars
       /\ (d_loop /\ CallCompleted) =>
              /\ d_result' = Returned("on_tool_end")
              /\ d_loop'
              /\ Len(d_trajectory') = Len(d_trajectory)
              /\ d_trajectory'[Latest(InProgress("r1"))].status = "success"
       /\ (d_loop /\ ~d_loop') =>
              /\ Cleared
              /\ d_trajectory' = <<>> /\ d_history' = <<>> /\ d_counts' = NoCounts
       /\ (WorkerResultRouted /\ d_result.raised) =>
              IF r_replan_attempts < max_replan_attempts
              THEN Cleared /\ ~d_loop' /\ Replanned
              ELSE UNCHANGED dvars /\ d_loop' /\ ~Replanned]_vars

\* the replan attempts are used up, the coordinator left the flag of the
\* callback set, and a fourth identical call has completed since without a
\* raise
C37_Witness ==
    /\ r_replan_attempts = max_replan_attempts
    /\ d_loop
    /\ Len(d_history) = max_retries + 1
    /\ IdenticalRun(d_history) = max_retries + 1
    /\ d_result = Returned("on_tool_end")

\* ------------------------------------------------------------------------
\* Records released by the recorder
\* ------------------------------------------------------------------------
\* the tool call records that the caller was handed last
ReleasedCalls ==
    IF c_last.op = "finalize" THEN c_record.v.tool_calls
    ELSE IF c_last.op = "tool_calls" THEN c_record.v
    ELSE <<>>

\* C38: with redaction enabled, in every list of tool call records that
\* finalize() or the tool_calls property hands to the caller, before or
\* after finalize, no record holds a credential value of the call it
\* records.
C38_ReleasedCallsAreRedacted ==
    c_redact =>
        \A i \in 1..Len(ReleasedCalls) :
            NoneLeft(CallTexts(c_tool_calls[i]), CallTexts(ReleasedCalls[i]))

\* ------------------------------------------------------------------------
\* The program after execute has returned
\* ------------------------------------------------------------------------
\* execute ran the program on a worker thread and returned with the
\* [TIMEOUT] line
ThreadTimedOut == ~x_main /\ x_result.some /\ Contains(x_result.v, TimeoutLine)

\* C39, as stated: once execute has returned, also with a [TIMEOUT] line,
\* the program calls no injected tool function and writes no output.
C39_AsStated ==
    [][x_pc = "returned" => (x_calls' = x_calls /\ x_buffer' = x_buffer)]_vars

\* C39: once execute has returned, the string it returned never changes,
\* and the program runs no further statement, so calls no injected tool
\* function and writes no output, unless execute ran it on a worker thread
\* and returned with the [TIMEOUT] line: that worker thread is not stopped.
C39_StopsUnlessThreadTimedOut ==
    [][x_pc = "returned" =>
          /\ x_result' = x_result
          /\ ~ThreadTimedOut =>
                 (x_calls' = x_calls /\ x_buffer' = x_buffer /\ x_at' = x_at)]_vars

\* the alarm ended a program after its first tool call and before its
\* second statement, and execute has returned with the [TIMEOUT] line
C39_Witness ==
    /\ x_pc = "returned" /\ x_main
    /\ Contains(x_result.v, TimeoutLine)
    /\ x_calls = 1
    /\ x_at <= Len(x_prog.v.head)
    /\ x_prog.v.head[x_at].op = "tool"

\* ------------------------------------------------------------------------
\* The times of a record finalized while threads share the recorder
\* ------------------------------------------------------------------------

\* a finalize() has returned a record to one of the threads
ThreadRecord == c_last.op = "finalize" /\ c_record.some

\* C40: when on_tool_start calls of different threads overlap with each other
\* or with finalize() on one TrajectoryCollector, the finalized record has
\* started_at <= completed_at and a started_at no later than the start_time
\* of every tool call recorded in it.
C40_StartedAtBoundsTheRecord ==
    ThreadRecord =>
        /\ c_record.v.started_at <= c_record.v.completed_at
        /\ \A i \in 1..Len(c_record.v.tool_calls) :
              c_record.v.started_at <= c_record.v.tool_calls[i].start_time

============================================================================
